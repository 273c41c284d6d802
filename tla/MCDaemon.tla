------------------------------ MODULE MCDaemon ------------------------------
(***************************************************************************)
(* A small instance of Daemon for TLC: lists of listeners that are sound,  *)
(* empty, out of range, of an unknown mode, of one address twice, of one   *)
(* port on two IPs, and of an IP and all IPs on one port.                  *)
(***************************************************************************)
EXTENDS Daemon

On(ip, p, m) == [ip |-> ip, port |-> p, mode |-> m]

Lists == [none |-> <<>>,
          default |-> <<On("0.0.0.0", 587, "starttls")>>,
          badport |-> <<On("0.0.0.0", 587, "starttls"), On("0.0.0.0", 65536, "plaintext")>>,
          badmode |-> <<On("0.0.0.0", 587, "tls")>>,
          twice |-> <<On("10.0.0.1", 587, "starttls"), On("10.0.0.1", 587, "plaintext")>>,
          ips |-> <<On("10.0.0.1", 587, "starttls"), On("10.0.0.2", 587, "starttls")>>,
          all |-> <<On("10.0.0.1", 587, "starttls"), On("", 587, "implicit_tls")>>]
=============================================================================
