------------------------- MODULE SnapshotIsolation -------------------------
(***************************************************************************)
(* What the table promises its clients, without versions, timestamps or    *)
(* compaction.  A transaction works on a private copy of the committed     *)
(* rows taken when it begins.  It may write a row only if no transaction   *)
(* that is still running has written it and none has committed a write to  *)
(* it since the copy was taken.  Commit installs the written rows.         *)
(***************************************************************************)
EXTENDS Integers, FiniteSets, Functions

CONSTANTS
  InitialStore,   \* the rows present at the start, as [row_id, row] records
  RowId, Payload  \* possible row ids and contents

VARIABLES
  store,    \* the committed rows
  view,     \* what each running transaction sees
  wrote,    \* the rows each running transaction has written
  missed,   \* the rows others committed since it began
  answer    \* the rows returned by its scan, while it looks at them

siVars == <<store, view, wrote, missed, answer>>

RowsOf(rows) == {b.row_id : b \in rows}
Drop(rows, ids) == {b \in rows : b.row_id \notin ids}
With(f, x, v) == [y \in DOMAIN f \cup {x} |-> IF y = x THEN v ELSE f[y]]
Less(f, x) == Restrict(f, DOMAIN f \ {x})

Running == DOMAIN view

Init ==
  /\ store = InitialStore
  /\ view = << >> /\ wrote = << >> /\ missed = << >> /\ answer = << >>

Begin(t) ==
  /\ t \notin Running
  /\ view' = With(view, t, store)
  /\ wrote' = With(wrote, t, {})
  /\ missed' = With(missed, t, {})
  /\ UNCHANGED <<store, answer>>

MayWrite(t, r) ==
  /\ r \notin missed[t]
  /\ \A u \in Running \ {t} : r \notin wrote[u]
  /\ \/ r \in RowsOf(view[t])
     \/ r \notin RowsOf(store) /\ \A u \in Running : r \notin RowsOf(view[u])

\* reserve, replace or remove row r
Write(t, r) ==
  /\ MayWrite(t, r)
  /\ wrote' = [wrote EXCEPT ![t] = @ \cup {r}]
  /\ \/ UNCHANGED view
     \/ view' = [view EXCEPT ![t] = Drop(@, {r})]
     \/ \E v \in Payload :
          view' = [view EXCEPT ![t] = Drop(@, {r}) \cup {[row_id |-> r, row |-> v]}]
  /\ UNCHANGED <<store, missed, answer>>

Commit(t) ==
  /\ store' = Drop(store, wrote[t]) \cup {b \in view[t] : b.row_id \in wrote[t]}
  /\ view' = Less(view, t)
  /\ missed' = [u \in DOMAIN missed \ {t} |-> missed[u] \cup wrote[t]]
  /\ wrote' = Less(wrote, t)
  /\ UNCHANGED answer

Abort(t) ==
  /\ view' = Less(view, t)
  /\ missed' = Less(missed, t)
  /\ wrote' = Less(wrote, t)
  /\ UNCHANGED <<store, answer>>

Read(t) ==
  /\ answer' = With(answer, t, view[t])
  /\ UNCHANGED <<store, view, wrote, missed>>

Done(t) ==
  /\ answer' = Less(answer, t)
  /\ UNCHANGED <<store, view, wrote, missed>>

Next ==
  \/ \E t \in DOMAIN view' \ Running : Begin(t)
  \/ \E t \in Running :
       Commit(t) \/ Abort(t) \/ Read(t) \/ Done(t) \/ \E r \in RowId : Write(t, r)

Spec == Init /\ [][Next]_siVars
=============================================================================
