------------------------- MODULE ApiKeysPageProofs -------------------------
(***************************************************************************)
(* The secret of a created key, for any keys and any number of requests in *)
(* flight.  SecretIsShownWhileValid is about a key the server knows and a  *)
(* screen that hears of it from answers alone, and what an answer does     *)
(* depends on the newKey its request was made with.  So the invariant says *)
(* what every request in flight remembers (RememberedInv), that a create   *)
(* and a delete are never under way together unnoticed (OverlapInv), that  *)
(* there is one create (OneCreator), and what the answers on their way say *)
(* of the server (DeletedInv, CreatedInv).                                 *)
(***************************************************************************)
EXTENDS ApiKeysPage, TLAPS

Table(t) ==
    /\ DOMAIN t = Slots
    /\ \A i \in Slots : /\ DOMAIN t[i] = { "kind", "arg", "st", "data" }
                        /\ t[i].st = "idle" <=> t[i].kind = Nil

UiInv ==
    /\ DOMAIN ui = { "open", "keys", "newKey", "named", "loading", "deleting",
                     "error", "copied", "dirty" }
    /\ ui.open \in BOOLEAN /\ ui.loading \in BOOLEAN

GhostInv ==
    /\ DOMAIN ghost = { "latest", "overlap", "excused" }
    /\ ghost.overlap \in BOOLEAN /\ ghost.excused \in BOOLEAN

IsDelete(i) == calls[i].kind = "keys.delete"
IsCreate(i) == calls[i].kind = "keys.create"
IsList(i)   == calls[i].kind = "keys.list"

ArgsInv == \A i \in Slots :
    /\ IsDelete(i) => calls[i].arg.id \in Keys
    /\ IsList(i)   => calls[i].arg \in { "effect", "create" }

\* A page that is not there waits for nothing.
ClosedInv == ui.open = FALSE => \A i \in Slots : calls[i].kind = Nil

\* handleCreate is one call after the other: the create, then the list.
Creator(i) == IsCreate(i) \/ (IsList(i) /\ calls[i].arg = "create")
OneCreator == \A i, k \in Slots : Creator(i) /\ Creator(k) => i = k
LoadingInv == (ui.open = TRUE /\ ui.loading = FALSE) => \A i \in Slots : ~Creator(i)

\* What an answer on its way says of the server.
ServerInv  == keys \subseteq made /\ (ghost.latest # Nil => ghost.latest \in made)
DeletedInv == \A i \in Slots :
    IsDelete(i) /\ calls[i].st = "done" => calls[i].arg.id \in made \ keys
CreatedInv == \A i \in Slots : IsCreate(i) /\ calls[i].st = "done" =>
    \A k \in calls[i].data : k \in made /\ (ghost.overlap = FALSE => k \in keys)

OverlapInv == \A i, d \in Slots : IsCreate(i) /\ IsDelete(d) => ghost.overlap = TRUE

\* A delete remembers the newKey of its render, which was no other key's.
Minded == ghost.latest # Nil /\ ghost.excused = FALSE
RememberedInv == Minded =>
    /\ ui.newKey \in { Nil, ghost.latest }
    /\ \A d \in Slots : IsDelete(d) =>
          /\ ui.newKey \in { Nil, calls[d].arg.newKey }
          /\ calls[d].arg.newKey \in { Nil, ghost.latest }

\* The secret is gone, or the answer that takes it away is on its way.
Revoked == \/ ui.newKey = Nil
           \/ \E d \in Slots : /\ IsDelete(d) /\ calls[d].st = "done"
                               /\ calls[d].arg.id = ghost.latest
SecretInv == Minded => IF ghost.latest \in keys THEN ui.newKey = ghost.latest ELSE Revoked

CallsInv == Table(calls) /\ ArgsInv /\ ClosedInv /\ OneCreator /\ LoadingInv
KeysInv  == ServerInv /\ DeletedInv /\ CreatedInv /\ OverlapInv /\ RememberedInv /\ SecretInv
IInv     == UiInv /\ GhostInv /\ CallsInv /\ KeysInv

-----------------------------------------------------------------------------
(* What the operations of WebApi do to a table of calls. *)

\* Nil is none of the endpoints the page calls.
LEMMA NilIsNoEndpoint ==
    Nil # "keys.list" /\ Nil # "keys.create" /\ Nil # "keys.delete"
BY NilAssumption DEF Endpoints, Reads, Writes

\* A call takes a slot that was idle, and no other.
Called(t, u, n, kind, arg) ==
    /\ n \in Slots /\ t[n].kind = Nil
    /\ u[n] = [ kind |-> kind, arg |-> arg, st |-> "sent", data |-> Nil ]
    /\ \A k \in Slots \ {n} : u[k] = t[k]

LEMMA CallTable ==
    ASSUME NEW t, Table(t), CanCall(t), NEW kind, kind # Nil, NEW arg
    PROVE  /\ Table(call(t, kind, arg))
           /\ \E n \in Slots : Called(t, call(t, kind, arg), n, kind, arg)
<1> DEFINE n == CHOOSE k \in Slots : t[k].st = "idle"
           u == call(t, kind, arg)
<1>1. n \in Slots /\ t[n].st = "idle"
  BY DEF CanCall
<1>2. u = [ t EXCEPT ![n] =
              [ kind |-> kind, arg |-> arg, st |-> "sent", data |-> Nil ] ]
  BY DEF call
<1> HIDE DEF n, u
<1>3. Table(u)
  BY <1>1, <1>2 DEF Table
<1>4. Called(t, u, n, kind, arg)
  BY <1>1, <1>2 DEF Table, Called
<1> QED
  BY <1>1, <1>3, <1>4 DEF u

\* An answer changes neither what a call is nor what it is about.
Answer(t, u, i, st, data) ==
    /\ Table(u)
    /\ u[i].st = st /\ u[i].data = data
    /\ \A k \in Slots : u[k].kind = t[k].kind /\ u[k].arg = t[k].arg
    /\ \A k \in Slots \ {i} : u[k] = t[k]

LEMMA AnswerTable ==
    ASSUME NEW t, Table(t), NEW i \in Slots, t[i].st # "idle", NEW data
    PROVE  /\ Answer(t, Resolve(t, i, data), i, "done", data)
           /\ Answer(t, Throw(t, i), i, "failed", Nil)
<1>1. ASSUME NEW st, NEW d, st # "idle"
      PROVE  Answer(t, [ t EXCEPT ![i].st = st, ![i].data = d ], i, st, d)
  <2> SUFFICES ASSUME NEW u, u = [ t EXCEPT ![i].st = st, ![i].data = d ]
               PROVE  Answer(t, u, i, st, d)
    OBVIOUS
  <2>1. DOMAIN u = Slots /\ \A k \in Slots \ {i} : u[k] = t[k]
    BY DEF Table
  <2>2. /\ DOMAIN u[i] = { "kind", "arg", "st", "data" }
        /\ u[i].st = st /\ u[i].data = d /\ u[i].kind = t[i].kind /\ u[i].arg = t[i].arg
    BY DEF Table
  <2>3. Table(u)
    BY <1>1, <2>1, <2>2 DEF Table
  <2> QED
    BY <2>1, <2>2, <2>3 DEF Answer
<1> QED
  BY <1>1 DEF Resolve, Throw

\* A call whose handler has run is gone, and no other.
LEMMA SettleTable ==
    ASSUME NEW t, Table(t), NEW i \in Slots
    PROVE  /\ Table(Settle(t, i)) /\ Settle(t, i)[i] = IdleCall
           /\ \A k \in Slots \ {i} : Settle(t, i)[k] = t[k]
           /\ CanCall(Settle(t, i))
<1>1. DOMAIN Settle(t, i) = Slots /\ Settle(t, i)[i] = IdleCall
      /\ \A k \in Slots \ {i} : Settle(t, i)[k] = t[k]
  BY DEF Table, Settle
<1>2. Table(Settle(t, i))
  BY <1>1 DEF Table, IdleCall
<1>3. CanCall(Settle(t, i))
  BY <1>1 DEF CanCall, IdleCall
<1> QED
  BY <1>1, <1>2, <1>3

LEMMA ClearedTable == Table(NoCalls) /\ CanCall(NoCalls)
                      /\ \A i \in Slots : NoCalls[i].kind = Nil
<1>1. 1 \in Slots
  BY MaxCallsAssumption DEF Slots
<1> QED
  BY <1>1 DEF Table, CanCall, NoCalls, IdleCall

-----------------------------------------------------------------------------
USE DEF IsDelete, IsCreate, IsList, Creator

LEMMA InitIInv == Init => IInv
<1> SUFFICES ASSUME Init PROVE IInv
  OBVIOUS
<1>1. calls = NoCalls /\ ui = Closed /\ keys = {} /\ made = {} /\ ghost = NoGhost
  BY DEF Init
<1>2. Table(calls) /\ \A i \in Slots : calls[i].kind = Nil
  BY <1>1, ClearedTable
<1>3. UiInv /\ GhostInv /\ ghost.latest = Nil /\ ui.open = FALSE
  BY <1>1 DEF Closed, Fresh, NoGhost, UiInv, GhostInv
<1>4. CallsInv
  BY <1>2, <1>3, NilIsNoEndpoint
     DEF CallsInv, ArgsInv, ClosedInv, OneCreator, LoadingInv
<1>5. KeysInv
  BY <1>1, <1>2, <1>3, NilIsNoEndpoint
     DEF KeysInv, ServerInv, DeletedInv, CreatedInv, OverlapInv, RememberedInv,
         SecretInv, Minded
<1> QED
  BY <1>3, <1>4, <1>5 DEF IInv

\* The page is opened: nothing is under way but its first list.
LEMMA OpenIInv == IInv /\ OpenPage => IInv'
<1> SUFFICES ASSUME IInv, OpenPage PROVE IInv'
  OBVIOUS
<1>1. /\ calls' = call(NoCalls, "keys.list", "effect") /\ ui' = Fresh
      /\ ghost' = NoGhost /\ keys' = keys /\ made' = made
  BY DEF OpenPage, server
<1>2. PICK n \in Slots : Called(NoCalls, calls', n, "keys.list", "effect")
  BY <1>1, ClearedTable, CallTable, NilIsNoEndpoint
<1>3. Table(calls)'
  BY <1>1, ClearedTable, CallTable, NilIsNoEndpoint
<1>4. \A i \in Slots : \/ calls'[i].kind = Nil
                       \/ calls'[i].kind = "keys.list" /\ calls'[i].arg = "effect"
  BY <1>2, ClearedTable DEF Called
<1>5. UiInv' /\ GhostInv' /\ ui'.open = TRUE /\ ghost'.latest = Nil
  BY <1>1 DEF Fresh, NoGhost, UiInv, GhostInv
<1>6. CallsInv'
  BY <1>3, <1>4, <1>5, NilIsNoEndpoint
     DEF CallsInv, ArgsInv, ClosedInv, OneCreator, LoadingInv
<1>7. KeysInv'
  BY <1>1, <1>4, <1>5, NilIsNoEndpoint
     DEF IInv, KeysInv, ServerInv, DeletedInv, CreatedInv, OverlapInv, RememberedInv,
         SecretInv, Minded
<1> QED
  BY <1>5, <1>6, <1>7 DEF IInv

LEMMA LeaveIInv == IInv /\ LeavePage => IInv'
<1> SUFFICES ASSUME IInv, LeavePage PROVE IInv'
  OBVIOUS
<1>1. calls' = NoCalls /\ ui' = Closed /\ ghost' = NoGhost /\ keys' = keys /\ made' = made
  BY DEF LeavePage, server
<1>2. Table(calls)' /\ \A i \in Slots : calls'[i].kind = Nil
  BY <1>1, ClearedTable
<1>3. UiInv' /\ GhostInv' /\ ui'.open = FALSE /\ ghost'.latest = Nil
  BY <1>1 DEF Closed, Fresh, NoGhost, UiInv, GhostInv
<1>4. CallsInv'
  BY <1>2, <1>3, NilIsNoEndpoint
     DEF CallsInv, ArgsInv, ClosedInv, OneCreator, LoadingInv
<1>5. KeysInv'
  BY <1>1, <1>2, <1>3, NilIsNoEndpoint
     DEF IInv, KeysInv, ServerInv, DeletedInv, CreatedInv, OverlapInv, RememberedInv,
         SecretInv, Minded
<1> QED
  BY <1>3, <1>4, <1>5 DEF IInv

\* What the user sees changes, but for the secret and the button.
SameSecret == /\ UiInv' /\ ui'.open = ui.open /\ ui'.loading = ui.loading
              /\ ui'.newKey = ui.newKey

LEMMA ScreenIInv ==
    ASSUME IInv, SameSecret, UNCHANGED <<keys, made, ghost, calls>>
    PROVE  IInv'
<1>1. CallsInv' /\ GhostInv'
  BY DEF SameSecret, IInv, GhostInv, CallsInv, Table, ArgsInv, ClosedInv, OneCreator, LoadingInv
<1>2. KeysInv'
  BY DEF SameSecret, IInv, KeysInv, ServerInv, DeletedInv, CreatedInv, OverlapInv,
         RememberedInv, SecretInv, Minded, Revoked
<1> QED
  BY <1>1, <1>2 DEF IInv, SameSecret

\* A render, whose effect reads the list.
LEMMA RenderIInv == IInv /\ Render => IInv'
<1> SUFFICES ASSUME IInv, Render PROVE IInv'
  OBVIOUS
<1>1. /\ ui.open = TRUE /\ CanCall(calls) /\ calls' = call(calls, "keys.list", "effect")
      /\ ghost' = ghost /\ keys' = keys /\ made' = made
  BY DEF Render, server, IInv, UiInv
<1>2. SameSecret
  BY DEF Render, IInv, UiInv, SameSecret
<1>3. Table(calls)' /\ \E n \in Slots : Called(calls, calls', n, "keys.list", "effect")
  BY <1>1, CallTable, NilIsNoEndpoint DEF IInv, CallsInv
<1>4. PICK n \in Slots : Called(calls, calls', n, "keys.list", "effect")
  BY <1>3
<1>5. /\ calls[n].kind = Nil /\ calls'[n].kind = "keys.list" /\ calls'[n].arg = "effect"
      /\ \A k \in Slots : k # n => calls'[k] = calls[k]
  BY <1>4 DEF Called
<1>6. CallsInv' /\ GhostInv'
  BY <1>1, <1>2, <1>3, <1>5, NilIsNoEndpoint
     DEF SameSecret, IInv, GhostInv, CallsInv, ArgsInv, ClosedInv, OneCreator, LoadingInv
<1>7. ServerInv' /\ DeletedInv' /\ CreatedInv' /\ OverlapInv'
  BY <1>1, <1>5, NilIsNoEndpoint
     DEF IInv, KeysInv, ServerInv, DeletedInv, CreatedInv, OverlapInv
<1>8. RememberedInv' /\ SecretInv'
  BY <1>1, <1>2, <1>5, NilIsNoEndpoint
     DEF SameSecret, IInv, KeysInv, RememberedInv, SecretInv, Minded, Revoked
<1> QED
  BY <1>2, <1>6, <1>7, <1>8 DEF IInv, KeysInv, SameSecret

\* Generate is pressed: the button being enabled, no create is under way, and
\* a delete that is will be remembered as an overlap.
LEMMA CreateIInv == IInv /\ handleCreate => IInv'
<1> SUFFICES ASSUME IInv, handleCreate PROVE IInv'
  OBVIOUS
<1>1. /\ ui.open = TRUE /\ ui.loading = FALSE /\ CanCall(calls)
      /\ calls' = call(calls, "keys.create", Nil) /\ keys' = keys /\ made' = made
  BY DEF handleCreate, CanGenerate, server, IInv, UiInv
<1>2. /\ UiInv' /\ ui'.open = TRUE /\ ui'.loading = TRUE /\ ui'.newKey = ui.newKey
  BY <1>1 DEF handleCreate, IInv, UiInv
<1>3. /\ GhostInv' /\ ghost'.latest = ghost.latest /\ ghost'.excused = ghost.excused
      /\ ghost'.overlap = Pending(calls, "keys.delete")
  <2>1. ghost' = [ ghost EXCEPT !.overlap = Pending(calls, "keys.delete") ]
    BY DEF handleCreate
  <2>2. Pending(calls, "keys.delete") \in BOOLEAN
    BY DEF Pending
  <2> QED
    BY <2>1, <2>2 DEF IInv, GhostInv
<1>4. Table(calls)' /\ \E n \in Slots : Called(calls, calls', n, "keys.create", Nil)
  BY <1>1, CallTable, NilIsNoEndpoint DEF IInv, CallsInv
<1>5. PICK n \in Slots : Called(calls, calls', n, "keys.create", Nil)
  BY <1>4
<1>6. /\ calls[n].kind = Nil /\ calls'[n].kind = "keys.create" /\ calls'[n].st = "sent"
      /\ \A k \in Slots : k # n => calls'[k] = calls[k]
  BY <1>5 DEF Called
<1>7. CallsInv'
  BY <1>1, <1>2, <1>4, <1>6, NilIsNoEndpoint
     DEF IInv, CallsInv, ArgsInv, ClosedInv, OneCreator, LoadingInv
<1>8. ServerInv' /\ DeletedInv'
  BY <1>1, <1>3, <1>6, NilIsNoEndpoint DEF IInv, KeysInv, ServerInv, DeletedInv
<1>9. CreatedInv'
  BY <1>1, <1>6 DEF IInv, CallsInv, LoadingInv, CreatedInv
<1>10. OverlapInv'
  <2>1. \A d \in Slots : calls'[d].kind = "keys.delete" => calls[d].kind = "keys.delete"
    BY <1>6
  <2>2. ASSUME NEW d \in Slots, calls[d].kind = "keys.delete"
        PROVE  Pending(calls, "keys.delete") = TRUE
    BY <2>2 DEF Pending, InFlight
  <2> QED
    BY <1>3, <2>1, <2>2 DEF OverlapInv
<1>11. RememberedInv' /\ SecretInv'
  BY <1>1, <1>2, <1>3, <1>6, NilIsNoEndpoint
     DEF IInv, KeysInv, RememberedInv, SecretInv, Minded, Revoked
<1> QED
  BY <1>2, <1>3, <1>7, <1>8, <1>9, <1>10, <1>11 DEF IInv, KeysInv

\* Delete is pressed, and remembers the newKey on the screen.
LEMMA DeleteIInv == ASSUME IInv, NEW k \in Keys, handleDelete(k) PROVE IInv'
<1> DEFINE arg == [ id |-> k, newKey |-> ui.newKey ]
<1>1. /\ ui.open = TRUE /\ CanCall(calls)
      /\ calls' = call(calls, "keys.delete", arg) /\ keys' = keys /\ made' = made
  BY DEF handleDelete, server, IInv, UiInv
<1>2. SameSecret
  BY DEF handleDelete, IInv, UiInv, SameSecret
<1>3. /\ GhostInv' /\ ghost'.latest = ghost.latest /\ ghost'.excused = ghost.excused
      /\ ghost.overlap = TRUE => ghost'.overlap = TRUE
      /\ Pending(calls, "keys.create") => ghost'.overlap = TRUE
  <2>1. ghost' = [ ghost EXCEPT !.overlap = ghost.overlap \/ Pending(calls, "keys.create") ]
    BY DEF handleDelete, IInv, GhostInv
  <2>2. (ghost.overlap \/ Pending(calls, "keys.create")) \in BOOLEAN
    OBVIOUS
  <2> QED
    BY <2>1, <2>2 DEF IInv, GhostInv
<1>4. Table(calls)' /\ \E n \in Slots : Called(calls, calls', n, "keys.delete", arg)
  BY <1>1, CallTable, NilIsNoEndpoint DEF IInv, CallsInv
<1>5. PICK n \in Slots : Called(calls, calls', n, "keys.delete", arg)
  BY <1>4
<1>6. /\ calls[n].kind = Nil /\ calls'[n].kind = "keys.delete" /\ calls'[n].st = "sent"
      /\ calls'[n].arg.id = k /\ calls'[n].arg.newKey = ui.newKey
      /\ \A j \in Slots : j # n => calls'[j] = calls[j]
  BY <1>5 DEF Called
<1>7. CallsInv'
  BY <1>1, <1>2, <1>4, <1>6, NilIsNoEndpoint
     DEF SameSecret, IInv, CallsInv, ArgsInv, ClosedInv, OneCreator, LoadingInv
<1>8. ServerInv' /\ DeletedInv' /\ CreatedInv'
  BY <1>1, <1>3, <1>6, NilIsNoEndpoint
     DEF IInv, KeysInv, GhostInv, ServerInv, DeletedInv, CreatedInv
<1>9. OverlapInv'
  <2> SUFFICES ASSUME NEW i \in Slots, calls'[i].kind = "keys.create"
               PROVE  ghost'.overlap = TRUE
    BY DEF OverlapInv
  <2>1. calls[i].kind = "keys.create"
    BY <1>6
  <2>2. Pending(calls, "keys.create")
    BY <2>1 DEF Pending, InFlight
  <2> QED
    BY <1>3, <2>2
<1>10. RememberedInv' /\ SecretInv'
  BY <1>1, <1>2, <1>3, <1>6, NilIsNoEndpoint
     DEF SameSecret, IInv, KeysInv, RememberedInv, SecretInv, Minded, Revoked
<1> QED
  BY <1>2, <1>3, <1>7, <1>8, <1>9, <1>10 DEF IInv, KeysInv, SameSecret

-----------------------------------------------------------------------------
(* The server and the network. *)

\* An answer leaves the page's calls what they are.
LEMMA AnswerCalls ==
    ASSUME IInv, NEW i \in Slots, NEW st, NEW data, Answer(calls, calls', i, st, data),
           ui' = ui
    PROVE  UiInv' /\ CallsInv'
<1>1. UiInv' /\ Table(calls)'
      /\ \A k \in Slots : calls'[k].kind = calls[k].kind /\ calls'[k].arg = calls[k].arg
  BY DEF Answer, IInv, UiInv
<1> QED
  BY <1>1 DEF IInv, CallsInv, ArgsInv, ClosedInv, OneCreator, LoadingInv

LEMMA ServeListIInv == ASSUME IInv, NEW i \in Slots, ServeList(i) PROVE IInv'
<1>1. /\ ui' = ui /\ ghost' = ghost /\ keys' = keys /\ made' = made
      /\ Answer(calls, calls', i, "done", keys) /\ calls[i].kind = "keys.list"
  BY AnswerTable DEF ServeList, Sent, server, IInv, CallsInv
<1>2. UiInv' /\ CallsInv'
  BY <1>1, AnswerCalls
<1>3. /\ \A k \in Slots : calls'[k].kind = calls[k].kind /\ calls'[k].arg = calls[k].arg
      /\ \A k \in Slots : k # i => calls'[k] = calls[k]
  BY <1>1 DEF Answer
<1>4. KeysInv'
  BY <1>1, <1>3
     DEF IInv, KeysInv, ServerInv, DeletedInv, CreatedInv, OverlapInv, RememberedInv,
         SecretInv, Minded, Revoked
<1> QED
  BY <1>1, <1>2, <1>4 DEF IInv, GhostInv

\* The new key is nobody's latest yet, and no delete is about it.
LEMMA ServeCreateIInv == ASSUME IInv, NEW i \in Slots, ServeCreate(i) PROVE IInv'
<1>1. PICK k \in Keys \ made :
         /\ ui' = ui /\ ghost' = ghost /\ keys' = keys \cup {k} /\ made' = made \cup {k}
         /\ Answer(calls, calls', i, "done", {k}) /\ calls[i].kind = "keys.create"
  BY AnswerTable DEF ServeCreate, Sent, IInv, CallsInv
<1>2. UiInv' /\ CallsInv'
  BY <1>1, AnswerCalls
<1>3. /\ \A j \in Slots : calls'[j].kind = calls[j].kind /\ calls'[j].arg = calls[j].arg
      /\ \A j \in Slots : j # i => calls'[j] = calls[j]
      /\ calls'[i].data = {k}
  BY <1>1 DEF Answer
<1>4. ServerInv' /\ DeletedInv' /\ OverlapInv'
  BY <1>1, <1>3 DEF IInv, KeysInv, ServerInv, DeletedInv, OverlapInv
<1>5. CreatedInv'
  <2> SUFFICES ASSUME NEW j \in Slots, calls'[j].kind = "keys.create", calls'[j].st = "done",
                      NEW l \in calls'[j].data
               PROVE  l \in made' /\ (ghost'.overlap = FALSE => l \in keys')
    BY DEF CreatedInv
  <2>1. CASE j = i
    BY <1>1, <1>3, <2>1
  <2>2. CASE j # i
    BY <1>1, <1>3, <2>2 DEF IInv, KeysInv, CreatedInv
  <2> QED
    BY <2>1, <2>2
<1>6. RememberedInv' /\ SecretInv'
  <2>1. Minded => ghost.latest # k
    BY <1>1 DEF IInv, KeysInv, ServerInv, Minded
  <2> QED
    BY <1>1, <1>3, <2>1 DEF IInv, KeysInv, RememberedInv, SecretInv, Minded, Revoked
<1> QED
  BY <1>1, <1>2, <1>4, <1>5, <1>6 DEF IInv, KeysInv, GhostInv

\* The answer that the key is gone is on its way, and a create that could have
\* made it is an overlap.
LEMMA ServeDeleteIInv == ASSUME IInv, NEW i \in Slots, ServeDelete(i) PROVE IInv'
<1> DEFINE k == calls[i].arg.id
<1>1. /\ ui' = ui /\ ghost' = ghost /\ keys' = keys \ {k} /\ made' = made /\ k \in keys
      /\ Answer(calls, calls', i, "done", {}) /\ calls[i].kind = "keys.delete"
  BY AnswerTable DEF ServeDelete, Sent, IInv, CallsInv
<1>2. UiInv' /\ CallsInv'
  BY <1>1, AnswerCalls
<1>3. /\ \A j \in Slots : calls'[j].kind = calls[j].kind /\ calls'[j].arg = calls[j].arg
      /\ \A j \in Slots : j # i => calls'[j] = calls[j]
      /\ calls'[i].st = "done"
  BY <1>1 DEF Answer
<1>4. ServerInv' /\ DeletedInv' /\ OverlapInv'
  BY <1>1, <1>3 DEF IInv, KeysInv, ServerInv, DeletedInv, OverlapInv
<1>5. CreatedInv'
  <2> SUFFICES ASSUME NEW j \in Slots, calls'[j].kind = "keys.create", calls'[j].st = "done",
                      NEW l \in calls'[j].data
               PROVE  l \in made' /\ (ghost'.overlap = FALSE => l \in keys')
    BY DEF CreatedInv
  <2>1. j # i /\ calls[j].kind = "keys.create"
    BY <1>1, <1>3
  <2>2. ghost.overlap = TRUE
    BY <1>1, <2>1 DEF IInv, KeysInv, OverlapInv
  <2> QED
    BY <1>1, <1>3, <2>1, <2>2 DEF IInv, KeysInv, CreatedInv
<1>6. RememberedInv'
  BY <1>1, <1>3 DEF IInv, KeysInv, RememberedInv, Minded
<1>7. SecretInv'
  BY <1>1, <1>3 DEF IInv, KeysInv, SecretInv, Minded, Revoked
<1> QED
  BY <1>1, <1>2, <1>4, <1>5, <1>6, <1>7 DEF IInv, KeysInv, GhostInv

LEMMA RefuseIInv == ASSUME IInv, NEW i \in Slots, Refuse(i) PROVE IInv'
<1>1. /\ ui' = ui /\ ghost' = ghost /\ keys' = keys /\ made' = made
      /\ Answer(calls, calls', i, "failed", Nil) /\ calls[i].st = "sent"
  BY AnswerTable DEF Refuse, server, IInv, CallsInv
<1>2. UiInv' /\ CallsInv'
  BY <1>1, AnswerCalls
<1>3. /\ \A j \in Slots : calls'[j].kind = calls[j].kind /\ calls'[j].arg = calls[j].arg
      /\ \A j \in Slots : j # i => calls'[j] = calls[j]
      /\ calls'[i].st = "failed"
  BY <1>1 DEF Answer
<1>4. KeysInv'
  BY <1>1, <1>3
     DEF IInv, KeysInv, ServerInv, DeletedInv, CreatedInv, OverlapInv, RememberedInv,
         SecretInv, Minded, Revoked
<1> QED
  BY <1>1, <1>2, <1>4 DEF IInv, GhostInv

\* Of a lost answer to the latest key's delete the page is excused.
LEMMA LoseIInv == ASSUME IInv, NEW i \in Slots, LoseAnswer(i) PROVE IInv'
<1> DEFINE Lost == calls[i].kind = "keys.delete" /\ calls[i].arg.id = ghost.latest
<1>1. /\ ui' = ui /\ keys' = keys /\ made' = made
      /\ Answer(calls, calls', i, "failed", Nil)
  BY AnswerTable DEF LoseAnswer, server, IInv, CallsInv
<1>2. UiInv' /\ CallsInv'
  BY <1>1, AnswerCalls
<1>3. /\ \A j \in Slots : calls'[j].kind = calls[j].kind /\ calls'[j].arg = calls[j].arg
      /\ \A j \in Slots : j # i => calls'[j] = calls[j]
      /\ calls'[i].st = "failed"
  BY <1>1 DEF Answer
<1>4. /\ GhostInv' /\ ghost'.latest = ghost.latest /\ ghost'.overlap = ghost.overlap
      /\ ghost'.excused = FALSE => ghost.excused = FALSE /\ ~Lost
  <2>1. ghost' = [ ghost EXCEPT !.excused = ghost.excused \/ Lost ]
    BY DEF LoseAnswer, IInv, GhostInv
  <2>2. (ghost.excused \/ Lost) \in BOOLEAN
    OBVIOUS
  <2> HIDE DEF Lost
  <2>3. GhostInv' /\ ghost'.latest = ghost.latest /\ ghost'.overlap = ghost.overlap
        /\ ghost'.excused = (ghost.excused \/ Lost)
    BY <2>1, <2>2 DEF IInv, GhostInv
  <2>4. ghost.excused \in BOOLEAN
    BY DEF IInv, GhostInv
  <2> QED
    BY <2>3, <2>4
<1>5. ServerInv' /\ DeletedInv' /\ CreatedInv' /\ OverlapInv'
  BY <1>1, <1>3, <1>4
     DEF IInv, KeysInv, ServerInv, DeletedInv, CreatedInv, OverlapInv
<1>6. RememberedInv'
  BY <1>1, <1>3, <1>4 DEF IInv, KeysInv, RememberedInv, Minded
<1>7. SecretInv'
  BY <1>1, <1>3, <1>4 DEF IInv, KeysInv, SecretInv, Minded, Revoked
<1> QED
  BY <1>2, <1>4, <1>5, <1>6, <1>7 DEF IInv, KeysInv

LEMMA CreateElsewhereIInv == ASSUME IInv, NEW k \in Keys, CreateElsewhere(k) PROVE IInv'
<1>1. /\ k \notin made /\ keys' = keys \cup {k} /\ made' = made \cup {k}
      /\ ui' = ui /\ calls' = calls /\ ghost' = ghost
  BY DEF CreateElsewhere
<1>2. UiInv' /\ GhostInv' /\ CallsInv'
  BY <1>1 DEF IInv, UiInv, GhostInv, CallsInv, Table, ArgsInv, ClosedInv, OneCreator,
              LoadingInv
<1>3. Minded => ghost.latest # k
  BY <1>1 DEF IInv, KeysInv, ServerInv, Minded
<1>4. KeysInv'
  BY <1>1, <1>3
     DEF IInv, KeysInv, ServerInv, DeletedInv, CreatedInv, OverlapInv, RememberedInv,
         SecretInv, Minded, Revoked
<1> QED
  BY <1>2, <1>4 DEF IInv

LEMMA DeleteElsewhereIInv == ASSUME IInv, NEW k \in Keys, DeleteElsewhere(k) PROVE IInv'
<1> DEFINE Making == Pending(calls, "keys.create")
<1>1. /\ keys' = keys \ {k} /\ made' = made /\ ui' = ui /\ calls' = calls
  BY DEF DeleteElsewhere
<1>2. /\ GhostInv' /\ ghost'.latest = ghost.latest
      /\ ghost'.excused = FALSE => ghost.excused = FALSE /\ k # ghost.latest
      /\ ghost.overlap = TRUE \/ Making => ghost'.overlap = TRUE
  <2>1. ghost' = [ ghost EXCEPT !.excused = ghost.excused \/ k = ghost.latest,
                                !.overlap = ghost.overlap \/ Making ]
    BY DEF DeleteElsewhere, IInv, GhostInv
  <2> DEFINE e == ghost.excused \/ k = ghost.latest
             o == ghost.overlap \/ Making
  <2>2. e \in BOOLEAN /\ o \in BOOLEAN
    OBVIOUS
  <2>3. ghost' = [ ghost EXCEPT !.excused = e, !.overlap = o ]
    BY <2>1
  <2> HIDE DEF e, o
  <2>4. GhostInv' /\ ghost'.latest = ghost.latest /\ ghost'.overlap = o /\ ghost'.excused = e
    BY <2>2, <2>3 DEF IInv, GhostInv
  <2>5. ghost.overlap \in BOOLEAN /\ ghost.excused \in BOOLEAN
    BY DEF IInv, GhostInv
  <2> QED
    BY <2>4, <2>5 DEF e, o
<1>3. UiInv' /\ CallsInv'
  BY <1>1 DEF IInv, UiInv, CallsInv, Table, ArgsInv, ClosedInv, OneCreator, LoadingInv
<1>4. \A i \in Slots : calls[i].kind = "keys.create" => ghost'.overlap = TRUE
  BY <1>2 DEF Pending, InFlight
<1>5. ServerInv' /\ DeletedInv' /\ CreatedInv' /\ OverlapInv'
  BY <1>1, <1>2, <1>4
     DEF IInv, KeysInv, ServerInv, DeletedInv, CreatedInv, OverlapInv
<1>6. RememberedInv' /\ SecretInv'
  BY <1>1, <1>2 DEF IInv, KeysInv, RememberedInv, SecretInv, Minded, Revoked
<1> QED
  BY <1>2, <1>3, <1>5, <1>6 DEF IInv, KeysInv

-----------------------------------------------------------------------------
(* The code behind the awaits. *)

\* The list renders, and ends a create when it was the create's.
LEMMA TakeListIInv == ASSUME IInv, NEW i \in Slots, TakeList(i) PROVE IInv'
<1>1. /\ ghost' = ghost /\ keys' = keys /\ made' = made
      /\ calls' = Settle(calls, i) /\ calls[i].kind = "keys.list"
  BY DEF TakeList, Answered, server
<1>2. Table(calls)' /\ calls'[i].kind = Nil /\ \A k \in Slots : k # i => calls'[k] = calls[k]
  BY <1>1, SettleTable DEF IInv, CallsInv, IdleCall
<1>3. /\ UiInv' /\ ui'.open = ui.open /\ ui'.newKey = ui.newKey
      /\ ui'.loading = IF calls[i].arg = "effect" THEN ui.loading ELSE FALSE
  <2>1. PICK read : /\ read \in { [ ui EXCEPT !.keys = calls[i].data, !.dirty = TRUE ] }
                              \cup { WithError(ui, e) : e \in Errors }
                    /\ ui' = IF calls[i].arg = "effect" THEN read
                             ELSE [ read EXCEPT !.loading = FALSE, !.dirty = TRUE ]
    BY DEF TakeList
  <2>2. /\ DOMAIN read = DOMAIN ui /\ read.open = ui.open /\ read.newKey = ui.newKey
        /\ read.loading = ui.loading
    BY <2>1 DEF WithError, IInv, UiInv
  <2> QED
    BY <2>1, <2>2 DEF IInv, UiInv
<1>4. CallsInv'
  <2>1. ArgsInv' /\ ClosedInv' /\ OneCreator'
    BY <1>2, <1>3, NilIsNoEndpoint DEF IInv, CallsInv, ArgsInv, ClosedInv, OneCreator
  <2>2. LoadingInv'
    <3>1. CASE calls[i].arg = "effect"
      BY <1>2, <1>3, <3>1, NilIsNoEndpoint DEF IInv, CallsInv, LoadingInv
    <3>2. CASE calls[i].arg = "create"
      BY <1>1, <1>2, <3>2, NilIsNoEndpoint DEF IInv, CallsInv, OneCreator, LoadingInv
    <3> QED
      BY <1>1, <3>1, <3>2 DEF IInv, CallsInv, ArgsInv
  <2> QED
    BY <1>2, <2>1, <2>2 DEF CallsInv
<1>5. KeysInv'
  BY <1>1, <1>2, <1>3, NilIsNoEndpoint
     DEF IInv, KeysInv, ServerInv, DeletedInv, CreatedInv, OverlapInv, RememberedInv,
         SecretInv, Minded, Revoked
<1> QED
  BY <1>1, <1>3, <1>4, <1>5 DEF IInv, GhostInv

\* A created key's secret appears; unless a delete was under way meanwhile, the
\* server has the key, and no delete in flight remembers another one.
LEMMA TakeCreatedIInv == ASSUME IInv, NEW i \in Slots, TakeCreate(i), Ok(i) PROVE IInv'
<1> DEFINE t == Settle(calls, i)
<1>1. PICK k \in calls[i].data :
         /\ ui' = [ ui EXCEPT !.newKey = k, !.named = FALSE, !.dirty = TRUE ]
         /\ calls' = call(t, "keys.list", "create")
         /\ ghost' = [ latest |-> k, overlap |-> FALSE, excused |-> ghost.overlap ]
  BY DEF TakeCreate
<1>2. keys' = keys /\ made' = made /\ calls[i].kind = "keys.create" /\ calls[i].st = "done"
  BY DEF TakeCreate, Answered, Ok, server
<1>3. Table(t) /\ t[i].kind = Nil /\ CanCall(t) /\ \A j \in Slots \ {i} : t[j] = calls[j]
  BY SettleTable DEF IInv, CallsInv, IdleCall
<1> HIDE DEF t
<1>4. Table(calls)' /\ \E n \in Slots : Called(t, calls', n, "keys.list", "create")
  BY <1>1, <1>3, CallTable, NilIsNoEndpoint
<1>5. PICK n \in Slots : Called(t, calls', n, "keys.list", "create")
  BY <1>4
<1>6. /\ calls'[n].kind = "keys.list" /\ calls'[n].arg = "create"
      /\ \A j \in Slots : j # n => calls'[j].kind = Nil \/ (j # i /\ calls'[j] = calls[j])
  BY <1>3, <1>5 DEF Called
<1>7. /\ UiInv' /\ ui'.open = ui.open /\ ui'.loading = ui.loading /\ ui'.newKey = k
  BY <1>1 DEF IInv, UiInv
<1>8. /\ GhostInv' /\ ghost'.latest = k /\ ghost'.overlap = FALSE
      /\ ghost'.excused = ghost.overlap
  BY <1>1 DEF IInv, GhostInv
<1>9. ui.open = TRUE /\ ui.loading = TRUE
  BY <1>2, NilIsNoEndpoint DEF IInv, UiInv, CallsInv, ClosedInv, LoadingInv
<1>10. \A j \in Slots : j # i => ~Creator(j)
  BY <1>2 DEF IInv, CallsInv, OneCreator
<1>11. CallsInv'
  BY <1>4, <1>6, <1>7, <1>9, <1>10, NilIsNoEndpoint
     DEF IInv, CallsInv, ArgsInv, ClosedInv, OneCreator, LoadingInv
<1>12. k \in made /\ (ghost.overlap = FALSE => k \in keys)
  BY <1>2 DEF IInv, KeysInv, CreatedInv
<1>13. ServerInv' /\ DeletedInv'
  BY <1>2, <1>6, <1>8, <1>12, NilIsNoEndpoint
     DEF IInv, KeysInv, ServerInv, DeletedInv
<1>14. CreatedInv' /\ OverlapInv'
  BY <1>6, <1>10, NilIsNoEndpoint DEF CreatedInv, OverlapInv
<1>15. ghost.overlap = FALSE => \A d \in Slots : calls'[d].kind # "keys.delete"
  BY <1>2, <1>6, NilIsNoEndpoint DEF IInv, KeysInv, OverlapInv
<1>16. RememberedInv' /\ SecretInv'
  BY <1>2, <1>7, <1>8, <1>12, <1>15 DEF RememberedInv, SecretInv, Minded
<1> QED
  BY <1>7, <1>8, <1>11, <1>13, <1>14, <1>16 DEF IInv, KeysInv

\* Steps that free a slot and leave the server alone.
Freed(i) == /\ Table(calls)' /\ calls'[i].kind = Nil /\ keys' = keys /\ made' = made
            /\ \A k \in Slots : k # i => calls'[k] = calls[k]

LEMMA TakeFailedCreateIInv ==
    ASSUME IInv, NEW i \in Slots, TakeCreate(i), ~Ok(i) PROVE IInv'
<1>1. Freed(i) /\ calls[i].kind = "keys.create"
  <2>1. /\ calls' = Settle(calls, i) /\ calls[i].kind = "keys.create"
        /\ keys' = keys /\ made' = made
    BY DEF TakeCreate, Answered, server
  <2> QED
    BY <2>1, SettleTable DEF IInv, CallsInv, IdleCall, Freed
<1>2. UiInv' /\ ui'.open = ui.open /\ ui'.loading = FALSE /\ ui'.newKey = ui.newKey
  BY DEF TakeCreate, IInv, UiInv
<1>3. /\ GhostInv' /\ ghost'.latest = ghost.latest
      /\ ghost'.excused = FALSE => ghost.excused = FALSE
  <2> DEFINE e == ghost.excused \/ ghost.overlap
  <2>1. ghost' = [ ghost EXCEPT !.excused = e, !.overlap = FALSE ]
    BY DEF TakeCreate, IInv, GhostInv
  <2>2. e \in BOOLEAN /\ (e = FALSE => ghost.excused = FALSE)
    BY DEF IInv, GhostInv
  <2> HIDE DEF e
  <2> QED
    BY <2>1, <2>2 DEF IInv, GhostInv
<1>4. \A j \in Slots : calls'[j].kind = Nil \/ (j # i /\ calls'[j] = calls[j])
  BY <1>1 DEF Freed
<1>5. \A j \in Slots : j # i => ~Creator(j)
  BY <1>1 DEF IInv, CallsInv, OneCreator
<1>6. CallsInv'
  BY <1>1, <1>2, <1>4, <1>5, NilIsNoEndpoint
     DEF Freed, IInv, CallsInv, ArgsInv, ClosedInv, OneCreator, LoadingInv
<1>7. ServerInv' /\ DeletedInv' /\ CreatedInv' /\ OverlapInv'
  BY <1>1, <1>3, <1>4, <1>5, NilIsNoEndpoint
     DEF Freed, IInv, KeysInv, ServerInv, DeletedInv, CreatedInv, OverlapInv
<1>8. RememberedInv'
  BY <1>2, <1>3, <1>4, NilIsNoEndpoint DEF IInv, KeysInv, RememberedInv, Minded
<1>9. SecretInv'
  BY <1>1, <1>2, <1>3 DEF Freed, IInv, KeysInv, SecretInv, Minded, Revoked
<1> QED
  BY <1>2, <1>3, <1>6, <1>7, <1>8, <1>9 DEF IInv, KeysInv

\* A delete is over: when it was the key whose secret was shown, the secret is
\* gone; when it failed, another's answer is still on its way or has been here.
LEMMA TakeDeleteIInv == ASSUME IInv, NEW i \in Slots, TakeDelete(i) PROVE IInv'
<1> DEFINE c == calls[i].arg
<1>1. Freed(i) /\ calls[i].kind = "keys.delete" /\ ghost' = ghost
  <2>1. /\ calls' = Settle(calls, i) /\ calls[i].kind = "keys.delete"
        /\ keys' = keys /\ made' = made /\ ghost' = ghost
    BY DEF TakeDelete, Answered, server
  <2> QED
    BY <2>1, SettleTable DEF IInv, CallsInv, IdleCall, Freed
<1>2. /\ UiInv' /\ ui'.open = ui.open /\ ui'.loading = ui.loading
      /\ ui'.newKey = IF calls[i].st = "done" /\ c.newKey = c.id THEN Nil ELSE ui.newKey
  <2>1. CASE Ok(i)
    BY <2>1 DEF TakeDelete, Ok, IInv, UiInv
  <2>2. CASE ~Ok(i)
    <3>1. PICK e \in Errors :
             ui' = [ ui EXCEPT !.error = e, !.deleting = Nil, !.dirty = TRUE ]
      BY <2>2 DEF TakeDelete
    <3> QED
      BY <2>2, <3>1 DEF Ok, IInv, UiInv
  <2> QED
    BY <2>1, <2>2
<1>3. c.id # Nil
  BY <1>1, KeysAssumption DEF IInv, CallsInv, ArgsInv
<1>4. \A j \in Slots : calls'[j].kind = Nil \/ (j # i /\ calls'[j] = calls[j])
  BY <1>1 DEF Freed
<1>5. CallsInv'
  BY <1>1, <1>2, <1>4, NilIsNoEndpoint
     DEF Freed, IInv, CallsInv, ArgsInv, ClosedInv, OneCreator, LoadingInv
<1>6. ServerInv' /\ DeletedInv' /\ CreatedInv' /\ OverlapInv'
  BY <1>1, <1>4, NilIsNoEndpoint
     DEF Freed, IInv, KeysInv, ServerInv, DeletedInv, CreatedInv, OverlapInv
<1>7. RememberedInv'
  BY <1>1, <1>2, <1>4, NilIsNoEndpoint DEF IInv, KeysInv, RememberedInv, Minded
<1>8. SecretInv'
  <2> SUFFICES ASSUME Minded
               PROVE  IF ghost.latest \in keys THEN ui'.newKey = ghost.latest ELSE Revoked'
    BY <1>1 DEF SecretInv, Minded, Freed
  <2>1. /\ ui.newKey \in { Nil, c.newKey } /\ c.newKey \in { Nil, ghost.latest }
    BY <1>1 DEF IInv, KeysInv, RememberedInv
  <2>2. CASE ghost.latest \in keys
    <3>1. ui.newKey = ghost.latest
      BY <2>2 DEF IInv, KeysInv, SecretInv
    <3>2. calls[i].st = "done" => c.id # ghost.latest
      BY <1>1, <2>2 DEF IInv, KeysInv, DeletedInv
    <3> QED
      BY <1>2, <1>3, <2>1, <2>2, <3>1, <3>2
  <2>3. CASE ghost.latest \notin keys
    <3>1. CASE ui.newKey = Nil
      BY <1>2, <2>3, <3>1 DEF Revoked
    <3>2. CASE ui.newKey # Nil
      <4>1. PICK d \in Slots : /\ calls[d].kind = "keys.delete" /\ calls[d].st = "done"
                               /\ calls[d].arg.id = ghost.latest
        BY <2>3, <3>2 DEF IInv, KeysInv, SecretInv, Revoked
      <4>2. CASE d = i
        BY <1>2, <2>1, <2>3, <3>2, <4>1, <4>2 DEF Revoked
      <4>3. CASE d # i
        BY <1>1, <2>3, <4>1, <4>3 DEF Freed, Revoked
      <4> QED
        BY <4>2, <4>3
    <3> QED
      BY <3>1, <3>2
  <2> QED
    BY <2>2, <2>3
<1> QED
  BY <1>1, <1>2, <1>5, <1>6, <1>7, <1>8 DEF IInv, KeysInv, GhostInv

-----------------------------------------------------------------------------
Next == OpenPage \/ LeavePage \/ OnPage \/ Elsewhere

LEMMA NextIInv == IInv /\ [Next]_vars => IInv'
<1> SUFFICES ASSUME IInv, [Next]_vars PROVE IInv'
  OBVIOUS
<1>1. CASE OpenPage \/ LeavePage
  BY <1>1, OpenIInv, LeaveIInv
<1>2. ASSUME NEW b \in BOOLEAN, TypeName(b) PROVE IInv'
  <2>1. SameSecret /\ UNCHANGED <<keys, made, ghost, calls>>
    BY <1>2 DEF TypeName, server, SameSecret, IInv, UiInv
  <2> QED
    BY <2>1, ScreenIInv
<1>3. CASE handleCopy \/ CopiedTimeout
  <2>1. SameSecret /\ UNCHANGED <<keys, made, ghost, calls>>
    BY <1>3 DEF handleCopy, CopiedTimeout, server, SameSecret, IInv, UiInv
  <2> QED
    BY <2>1, ScreenIInv
<1>4. CASE handleCreate \/ Render
  BY <1>4, CreateIInv, RenderIInv
<1>5. ASSUME NEW k \in Keys, handleDelete(k) PROVE IInv'
  BY <1>5, DeleteIInv
<1>6. ASSUME NEW i \in Slots, Serve(i) \/ LoseAnswer(i) PROVE IInv'
  BY <1>6, ServeListIInv, ServeCreateIInv, ServeDeleteIInv, RefuseIInv, LoseIInv DEF Serve
<1>7. ASSUME NEW i \in Slots, Take(i) PROVE IInv'
  BY <1>7, TakeListIInv, TakeCreatedIInv, TakeFailedCreateIInv, TakeDeleteIInv DEF Take
<1>8. CASE Elsewhere
  BY <1>8, CreateElsewhereIInv, DeleteElsewhereIInv DEF Elsewhere
<1>9. CASE UNCHANGED vars
  <2>1. SameSecret /\ UNCHANGED <<keys, made, ghost, calls>>
    BY <1>9 DEF vars, SameSecret, IInv, UiInv
  <2> QED
    BY <2>1, ScreenIInv
<1> QED
  BY <1>1, <1>2, <1>3, <1>4, <1>5, <1>6, <1>7, <1>8, <1>9 DEF Next, OnPage

LEMMA Invariance == Spec => []IInv
BY InitIInv, NextIInv, PTL DEF Spec, Next

\* SecretIsShownWhileValid: the secret of the last created key, which can be
\* read nowhere else, is on the screen for as long as the key exists, and goes
\* with the answer to its delete (handleDelete's comparison with newKey) - for
\* any number of requests, answered in any order.
THEOREM SecretWhileValid == Spec => []SecretIsShownWhileValid
<1>1. IInv => SecretIsShownWhileValid
  BY DEF IInv, KeysInv, SecretInv, Minded, Revoked, GhostInv, SecretIsShownWhileValid,
         InFlight
<1> QED
  BY <1>1, Invariance, PTL

\* However often Generate is pressed, one create is under way, the list that it
\* ends with included.
THEOREM OneCreateAtATime == Spec => []OneCreator
<1>1. IInv => OneCreator
  BY DEF IInv, CallsInv
<1> QED
  BY <1>1, Invariance, PTL
=============================================================================
