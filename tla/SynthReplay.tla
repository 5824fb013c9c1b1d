----------------------------- MODULE SynthReplay -----------------------------
(***************************************************************************)
(* The generated day played into lob-core: every message of the mix is     *)
(* applied to a reference book of its locate (RefOps), as a replay of the  *)
(* day does, and the truth sidecar is compared with what the replay shows. *)
(* The generator's book knows nothing of the books it is compared with.    *)
(***************************************************************************)
EXTENDS Generator

Ref == INSTANCE RefOps

VARIABLES
  replayed,  \* [Locates -> reference book]
  answer     \* what the book answered to the last message

replayVars == <<vars, replayed, answer>>

\* P and L touch no book.
Play(b, o) == IF o = NoOp THEN [book |-> b, result |-> NoResult] ELSE Ref!Called(b, o)

Follow ==
  IF emitted' = emitted THEN UNCHANGED <<replayed, answer>>
  ELSE LET played == Play(replayed[msg'.locate], msg'.op)
       IN  /\ replayed' = [replayed EXCEPT ![msg'.locate] = played.book]
           /\ answer' = played.result

ReplayInit ==
  /\ Init
  /\ replayed = [l \in Locates |-> Ref!EmptyRefBook]
  /\ answer = NoResult

ReplayNext == Next /\ Follow

ReplaySpec == ReplayInit /\ [][ReplayNext]_replayVars

-----------------------------------------------------------------------------

\* A row of the sidecar shows what the replayed book shows after the message of
\* the row: best levels, depth, number of orders and the input of the state hash.
SidecarAgrees ==
  row.locate # 0 =>
    LET b == replayed[row.locate]
        best(s) == IF Ref!Best(b, s) = <<>> THEN <<>> ELSE SubSeq(Ref!Best(b, s), 1, 2)
        levels(s) == Ref!L2(b, s, RowLevels)
    IN  /\ \A s \in Sides :
             /\ row.best[s] = best(s)
             /\ row.depth[s] = [k \in 1 .. RowLevels |->
                                  IF k \in DOMAIN levels(s) THEN levels(s)[k][2] ELSE 0]
        /\ row.live = Cardinality(DOMAIN b.ids)
        /\ row.hashed = Ref!HashInput(b)

\* The replay accepts every message about a live order and every new order, and
\* rejects every message about an order that has left.
RejectsOnlyDead ==
  [][emitted' # emitted =>
       (answer'.ok <=> \/ msg'.op = NoOp \/ msg'.type \in {"A", "F"}
                       \/ Knows(locs[msg'.locate].book, msg'.op.id))]_replayVars
=============================================================================
