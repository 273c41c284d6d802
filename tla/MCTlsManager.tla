--------------------------- MODULE MCTlsManager ---------------------------
(***************************************************************************)
(* A small instance of TlsManager for TLC: three certificates for two      *)
(* names, of which the second is made with the key of the first.           *)
(***************************************************************************)
EXTENDS TlsManager

CONSTANTS va, vb, vab

TwoFiles == <<"a.pem", "b.pem">>
TwoDomains == {"a", "b"}
ThreeCerts == {va, vb, vab}
CoversOf == [v \in ThreeCerts |->
                IF v = va THEN {"a"} ELSE IF v = vb THEN {"b"} ELSE {"a", "b"}]
KeyOf == [v \in ThreeCerts |-> IF v = vab THEN 2 ELSE 1]
=============================================================================
