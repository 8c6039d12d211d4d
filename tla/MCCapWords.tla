------------------------------ MODULE MCCapWords ------------------------------
(***************************************************************************)
(* Words of two bits; the highest bit is a capability that the program     *)
(* does not know.  One capability has two spellings, and one is in the     *)
(* high word.                                                              *)
(***************************************************************************)
EXTENDS CapWords, TLC

MCKnown == {0, 1, 2}

MCNumbersOf == "CHOWN" :> {0} @@ "CAP_chown" :> {0} @@ "SETUID" :> {2} @@ "all" :> MCKnown
                 @@ "cap_chown" :> {}

\* The effective set may be anything; nothing is computed from the others.
MCGivens == {[s \in Sets |-> IF s = "effective" THEN words
                                ELSE <<[n \in 0 .. W - 1 |-> TRUE], [n \in 0 .. W - 1 |-> n = 0]>>] :
               words \in Word \X Word}
=============================================================================
