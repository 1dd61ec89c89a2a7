----------------------------- MODULE MCProducer -----------------------------
(***************************************************************************)
(* Small instances of Producer for TLC.                                    *)
(***************************************************************************)
EXTENDS Producer

CONSTANTS t1, t2

\* Three devices of type t1 and one of t2: with pages of two, a full page and
\* a part of one, and a table that ends within a page.
MCTable == [t \in Types |-> IF t = t1 THEN <<3, 5, 8>> ELSE <<4>>]

\* The cron entries of pushconfig.PushMap give no Num.
Cron(types) == [types |-> types, num |-> 0]
MCCron == {Cron({t1, t2})}

Manual(types, num) == [types |-> types, num |-> num]
\* All devices of t1, in two pages, more than there are, or one of each type.
MCManual == {Manual({t1}, 3), Manual({t1}, 4), Manual({t1, t2}, 1)}

=============================================================================
