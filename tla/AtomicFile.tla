----------------------------- MODULE AtomicFile -----------------------------
(***************************************************************************)
(* What saving the registry promises, without lines, names or syncs: who   *)
(* reads finds the whole of one save, the last that succeeded.  A power    *)
(* loss may take saves back, never a part of one; a file somebody cut      *)
(* short gives some of its records or is refused.  RequestStore implements *)
(* this module (see Atomic there).                                         *)
(***************************************************************************)
EXTENDS RequestRegistry

VARIABLES
    up,
    wanted, \* the records in memory
    shown,  \* what a reader finds
    kept    \* what a reader finds after a power loss

avars == <<up, wanted, shown, kept>>

Found(records) == [ok |-> TRUE, records |-> records]

AtomicInit == ~up /\ wanted = Empty /\ shown = Found(Empty) /\ kept = Found(Empty)

Open == ~up /\ up' /\ shown = Found(wanted') /\ UNCHANGED <<shown, kept>>

OpenAfresh == ~up /\ up' /\ wanted' = Empty /\ shown' \in {shown, Found(Empty)} /\ UNCHANGED kept

Change == up /\ UNCHANGED <<up, shown, kept>>

Replace == up /\ shown' = Found(wanted) /\ UNCHANGED <<up, wanted, kept>>

Flush == kept' = shown /\ UNCHANGED <<up, wanted, shown>>

Close == up /\ ~up' /\ wanted' = Empty /\ UNCHANGED <<shown, kept>>

PowerLoss == ~up' /\ wanted' = Empty /\ shown' = kept /\ UNCHANGED kept

CutShort ==
    /\ ~up
    /\ \/ ~shown'.ok
       \/ \E S \in SUBSET DOMAIN shown.records : shown' = Found(Keep(shown.records, S))
    /\ kept' = shown'
    /\ UNCHANGED <<up, wanted>>

AtomicNext ==
    Open \/ OpenAfresh \/ Change \/ Replace \/ Flush \/ Close \/ PowerLoss \/ CutShort

AtomicSpec == AtomicInit /\ [][AtomicNext]_avars
=============================================================================
