---------------------------- MODULE MCRegistration ----------------------------
(* Small instances of Registration and Sessions: alice has an account, the  *)
(* nick bob is another account or none, and is what Me may call itself.    *)
EXTENDS Registration

MCSecrets == [u \in Users |-> IF u = "alice" THEN "pa" ELSE NoPass]
Alice == {"alice"}

On(cap)  == [cap |-> cap, minus |-> FALSE, upper |-> FALSE]
Off(cap) == [cap |-> cap, minus |-> TRUE, upper |-> TRUE]
OnUpper(cap) == [cap |-> cap, minus |-> FALSE, upper |-> TRUE]

OneCap == {"batch"}
Lines == {<<On("batch"), On("bogus")>>, <<Off("batch")>>}
LinesUpper == Lines \cup {<<OnUpper("batch")>>}
AnyFault == {"io", "crash"}
=============================================================================
