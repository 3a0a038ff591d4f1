---------------------------- MODULE MCInjectGraph ----------------------------
(* Instances of InjectGraph for TLC.  Log needs nothing; Store needs a Log;  *)
(* Server needs a Log and what is behind an interface, one of its type, and  *)
(* can do without a number; Odd has a field that cannot be set.              *)
EXTENDS InjectGraph

Fld(tag, type, singleton, canNil, legal) ==
    [tag |-> tag, type |-> type, singleton |-> singleton, canNil |-> canNil, legal |-> legal]

MCFields ==
    [Log    |-> <<>>,
     Store  |-> <<Fld("", "Log", FALSE, FALSE, TRUE)>>,
     Server |-> <<Fld("a", "Log", TRUE, FALSE, TRUE), Fld("b", "Storage", TRUE, FALSE, TRUE),
                  Fld("", "int", FALSE, TRUE, TRUE)>>,
     Odd    |-> <<Fld("b", "int", FALSE, TRUE, FALSE)>>]

MCImpls == [n \in Names |-> IF n = "b" THEN <<"Log", "Store">> ELSE <<>>]

MCAssignable == {<<t, t>> : t \in Types} \cup {<<"Store", "Storage">>}
=============================================================================
