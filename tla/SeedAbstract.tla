---------------------------- MODULE SeedAbstract ----------------------------
(***************************************************************************)
(* What init_db_samples promises the database, with the processes, their   *)
(* in-memory objects and their crashes hidden: the sample rows appear all  *)
(* at once and only in an empty database, after which the sample links     *)
(* appear one at a time, each only between rows that exist.  The samples   *)
(* are eventually inserted; the links are not promised.                    *)
(***************************************************************************)
EXTENDS Naturals, SeedData

VARIABLES rows, links

absVars == <<rows, links>>

\* The rows of the one seed batch.
Batch == {1} \X SeedObjects

\* The link row that call i of lines 320-353 makes between batch rows.
SeedLinkRow(i) == [SeedLinks[i] EXCEPT !.primary   = <<1, @>>,
                                       !.secondary = <<1, @>>]

Init == rows = {} /\ links = {}

\* Lines 146-150 and 302-318: the samples are inserted into an empty database.
Insert ==
    /\ rows = {}
    /\ rows' = Batch
    /\ UNCHANGED links

\* Lines 320-353: a link between two existing sample rows is stored.
AddLink(i) ==
    /\ {SeedLinkRow(i).primary, SeedLinkRow(i).secondary} \subseteq rows
    /\ links' = links \cup {SeedLinkRow(i)}
    /\ UNCHANGED rows

Next == Insert \/ \E i \in 1..Len(SeedLinks) : AddLink(i)

SafeSpec == Init /\ [][Next]_absVars

Spec == SafeSpec /\ WF_absVars(Insert)

=============================================================================
