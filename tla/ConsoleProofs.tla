--------------------------- MODULE ConsoleProofs ---------------------------
(***************************************************************************)
(* Theorems about the console.                                             *)
(*                                                                         *)
(* The playground: what SendPageProofs shows holds here too, where the     *)
(* other pages and the rest of the world take their steps in between,      *)
(* since every step is one of the playground or leaves it alone.           *)
(*                                                                         *)
(* The e-mail configuration (SmtpInv): what the page shows is the last     *)
(* thing it was told, and nobody else's write has come after it.           *)
(*                                                                         *)
(* The overview (HomeInv): each query of a reading saw the log up to some  *)
(* place, no later query up to an earlier one, and a reading that was      *)
(* overtaken is not heard of again.                                        *)
(***************************************************************************)
EXTENDS Console, Sequences, FiniteSetTheorems, WellFoundedInduction, TLAPS

PP == INSTANCE SendPageProofs WITH email <- sendEmail, calls <- sendCalls

\* The playground of the console starts as SendPage does.
LEMMA InitIsPlaygroundInit == Init => PP!Init
BY DEF Init, P!Init, PP!Init, P!NoEmail, PP!NoEmail, P!NoOtp, PP!NoOtp

\* What the user and the answers do on the page is the same definition, seen
\* through two instances.
LEMMA SamePage == P!OnPage => PP!OnPage
BY Zenon DEF
   P!OnPage, P!SelectTab, P!TypeEmail, P!TypeCode, P!TypeAddress,
   P!handleSendEmail, P!handleSendOtp, P!handleVerifyOtp, P!Reset, P!Kinds,
   P!Settle, P!SendEmailAnswered, P!SendOtpAnswered, P!VerifyOtpAnswered,
   P!EmailInputs, P!SendTestEmail, P!AddressInput, P!SendCode, P!ResetButton,
   P!CodeInput, P!VerifyCode, P!Cleared, P!Request, P!FreeNumbers,
   PP!OnPage, PP!SelectTab, PP!TypeEmail, PP!TypeCode, PP!TypeAddress,
   PP!handleSendEmail, PP!handleSendOtp, PP!handleVerifyOtp, PP!Reset, PP!Kinds,
   PP!Settle, PP!SendEmailAnswered, PP!SendOtpAnswered, PP!VerifyOtpAnswered,
   PP!EmailInputs, PP!SendTestEmail, PP!AddressInput, PP!SendCode, PP!ResetButton,
   PP!CodeInput, PP!VerifyCode, PP!Cleared, PP!Request, PP!FreeNumbers

LEMMA SameRevisit == P!Revisit => PP!Revisit
BY DEF P!Revisit, PP!Revisit, P!NoEmail, PP!NoEmail, P!NoOtp, PP!NoOtp

\* A step of the console is a step of the playground, or a stutter.
LEMMA StepIsPlaygroundStep == [Next]_vars => [PP!Next]_(PP!vars)
<1> SUFFICES ASSUME [Next]_vars PROVE PP!Next \/ UNCHANGED PP!vars
  OBVIOUS
<1> USE DEF sendPage, PP!vars
<1>1. CASE Navigate
  BY <1>1, SameRevisit DEF Navigate, PP!Next
<1>2. CASE SmtpStep
  BY <1>2 DEF SmtpStep
<1>3. CASE HomeStep
  BY <1>3 DEF HomeStep
<1>4. CASE SendStep
  BY <1>4, SamePage DEF SendStep, PP!Next
<1>5. CASE Elsewhere
  BY <1>5 DEF Elsewhere
<1>6. CASE UNCHANGED vars
  BY <1>6 DEF vars
<1> QED
  BY <1>1, <1>2, <1>3, <1>4, <1>5, <1>6 DEF Next

LEMMA ConsoleInvariance == Spec => []PP!IInv
<1>1. Init => PP!IInv
  BY InitIsPlaygroundInit, PP!InitIInv
<1>2. PP!IInv /\ [Next]_vars => PP!IInv'
  BY StepIsPlaygroundStep, PP!NextIInv
<1> QED
  BY <1>1, <1>2, PTL DEF Spec

\* In the console too, a spinner of the playground stands for one request of
\* its kind, and no address changes under a code that is being sent to it.
THEOREM ConsoleOneRequestOfAKind == Spec => []BusyMeansCalls
<1>1. PP!IInv => BusyMeansCalls
  BY DEF PP!IInv, PP!BusyMeansCalls, BusyMeansCalls, P!BusyMeansCalls
<1> QED
  BY <1>1, ConsoleInvariance, PTL

\* In the console too, "OTP Verified" is said of the address the code was sent
\* to, unless a Reset overtook the verification.
THEOREM ConsoleVerifiedIsTrue == Spec => []VerifiedIsForThisSend
<1>1. PP!IInv => VerifiedIsForThisSend
  BY DEF PP!IInv, PP!VerifiedIsForThisSend, VerifiedIsForThisSend,
         P!VerifiedIsForThisSend
<1> QED
  BY <1>1, ConsoleInvariance, PTL

\* In the console too, each tab of the playground shows exactly one panel.
THEOREM ConsoleOnePanelAtATime == Spec => []PanelsAgree
<1>1. PP!PanelsAgree => PanelsAgree
  BY DEF PP!PanelsAgree, PP!EmailPanels, PP!OtpPanels,
         PanelsAgree, P!PanelsAgree, P!EmailPanels, P!OtpPanels,
         P!Cardinality, PP!Cardinality
<1> QED
  BY <1>1, PP!OnePanel, ConsoleInvariance, PTL

-----------------------------------------------------------------------------
(* The e-mail configuration page.  That it tells the truth rests on what may *)
(* be in flight together: until the row has arrived no write has been made,  *)
(* unless the page is excused, and never two writes at once.                 *)

SmtpKinds == { "smtp.get", "smtp.upsert", "smtp.delete" }
SmtpUi ==
    [ open : BOOLEAN, config : S!Rows \cup {Nil}, from : BOOLEAN, host : BOOLEAN,
      secret : BOOLEAN, loading : BOOLEAN, deleting : BOOLEAN,
      success : S!Rows \cup {Nil} ]

\* An entry of the call table: what is asked, and what the answer can be.
SlotOK(c) ==
    /\ c \in [ kind : SmtpKinds \cup {Nil}, arg : S!Rows \cup { Nil, "invalid" },
               st : { "idle", "sent", "done", "failed" }, data : S!Rows \cup {Nil} ]
    /\ c.kind = Nil <=> c.st = "idle"
    /\ c.kind = "smtp.upsert" => c.arg \in S!Rows \cup { "invalid" }
    /\ c.st = "done" => c.data \in S!Rows
    /\ c.st = "done" /\ c.kind = "smtp.delete" => c.data = "none"

SmtpTypes ==
    /\ smtp \in S!Rows /\ smtpGhost \in BOOLEAN
    /\ smtpUi \in SmtpUi
    /\ smtpCalls = [ i \in S!Slots |-> smtpCalls[i] ]
    /\ \A i \in S!Slots : SlotOK(smtpCalls[i])

Write(i) == smtpCalls[i].kind \in { "smtp.upsert", "smtp.delete" }
Read(i)  == smtpCalls[i].kind = "smtp.get"
DoneWrite == \E i \in S!Slots : Write(i) /\ smtpCalls[i].st = "done"

\* One read and one write at most; a write is marked by its spinner.
SmtpTable ==
    /\ \A i, k \in S!Slots : Write(i) /\ Write(k) => i = k
    /\ \A i, k \in S!Slots : Read(i) /\ Read(k) => i = k
    /\ \A i \in S!Slots :
         /\ smtpCalls[i].kind = "smtp.upsert" => smtpUi.loading
         /\ smtpCalls[i].kind = "smtp.delete" => smtpUi.deleting
         /\ smtpUi.open = FALSE => smtpCalls[i].kind = Nil

\* A page with nothing to excuse it, before its row has arrived ...
SmtpUnread ==
    (\E i \in S!Slots : Read(i)) /\ ~smtpGhost =>
    /\ smtpUi.config = Nil /\ smtpUi.success = Nil
    /\ \A i \in S!Slots : /\ ~Write(i)
                          /\ smtpCalls[i].st = "done" => smtpCalls[i].data = smtp

\* ... and afterwards: it shows the row, or the answer to the write that made
\* the difference is on its way.
SmtpRead ==
    smtpUi.open /\ ~smtpGhost /\ (\A i \in S!Slots : ~Read(i)) =>
    /\ DoneWrite \/ S!RowOf(smtpUi.config) = smtp
    /\ smtpUi.success # Nil => S!RowOf(smtpUi.config) = smtpUi.success
    /\ \A i \in S!Slots : smtpCalls[i].st = "done" => smtpCalls[i].data = smtp

SmtpInv == SmtpTypes /\ SmtpTable /\ SmtpUnread /\ SmtpRead

LEMMA SmtpNil ==
    /\ Nil \notin SmtpKinds
    /\ S!Rows = { "none", "from", "own" } /\ Nil \notin S!Rows
    /\ \A row \in S!Rows : S!RowOf(row) = row
    /\ S!RowOf(Nil) = "none"
BY NilAssumption, RowsAssumption
   DEF Endpoints, Reads, Writes, SmtpKinds, S!Rows, S!RowOf

\* A call takes a slot that was idle, and no other.
SmtpCalled(n, kind) ==
    /\ n \in S!Slots /\ smtpCalls[n].kind = Nil
    /\ smtpCalls'[n].kind = kind /\ smtpCalls'[n].st = "sent"
    /\ \A k \in S!Slots \ {n} : smtpCalls'[k] = smtpCalls[k]
    /\ smtpCalls' = [ i \in S!Slots |-> smtpCalls'[i] ]
    /\ \A i \in S!Slots : SlotOK(smtpCalls'[i])

LEMMA SmtpCall ==
    ASSUME SmtpTypes, NEW kind \in SmtpKinds, NEW arg \in S!Rows \cup { Nil, "invalid" },
           kind = "smtp.upsert" => arg \in S!Rows \cup { "invalid" },
           S!CanCall(smtpCalls),
           smtpCalls' = S!call(smtpCalls, kind, arg)
    PROVE  \E n \in S!Slots : SmtpCalled(n, kind)
<1> DEFINE n == CHOOSE k \in S!Slots : smtpCalls[k].st = "idle"
           c == [ kind |-> kind, arg |-> arg, st |-> "sent", data |-> Nil ]
<1>1. n \in S!Slots /\ smtpCalls[n].st = "idle"
  BY DEF S!CanCall
<1>2. smtpCalls' = [ smtpCalls EXCEPT ![n] = c ]
  BY DEF S!call
<1> HIDE DEF n
<1>3. SlotOK(c)
  BY SmtpNil DEF SlotOK
<1>4. c.kind = kind /\ c.st = "sent"
  OBVIOUS
<1> HIDE DEF c
<1>5. /\ smtpCalls'[n] = c
      /\ \A k \in S!Slots \ {n} : smtpCalls'[k] = smtpCalls[k]
      /\ smtpCalls' = [ i \in S!Slots |-> smtpCalls'[i] ]
  BY <1>1, <1>2 DEF SmtpTypes
<1>6. smtpCalls[n].kind = Nil
  BY <1>1 DEF SmtpTypes, SlotOK
<1>7. \A i \in S!Slots : SlotOK(smtpCalls'[i])
  BY <1>3, <1>5 DEF SmtpTypes
<1> QED
  BY <1>1, <1>4, <1>5, <1>6, <1>7 DEF SmtpCalled

\* An answer, or a failure, touches one slot and not what it was about.
SmtpAnswered(n, st, data) ==
    /\ smtpCalls'[n].kind = smtpCalls[n].kind
    /\ smtpCalls'[n].st = st /\ smtpCalls'[n].data = data
    /\ \A k \in S!Slots \ {n} : smtpCalls'[k] = smtpCalls[k]
    /\ smtpCalls' = [ i \in S!Slots |-> smtpCalls'[i] ]
    /\ \A i \in S!Slots : SlotOK(smtpCalls'[i])

LEMMA SmtpAnswer ==
    ASSUME SmtpTypes, NEW n \in S!Slots, smtpCalls[n].st # "idle",
           NEW st, NEW data,
           \/ st = "failed" /\ data = Nil /\ smtpCalls' = S!Throw(smtpCalls, n)
           \/ /\ st = "done" /\ data \in S!Rows
              /\ smtpCalls[n].kind = "smtp.delete" => data = "none"
              /\ smtpCalls' = S!Resolve(smtpCalls, n, data)
    PROVE  SmtpAnswered(n, st, data)
<1>1. smtpCalls' = [ smtpCalls EXCEPT ![n].st = st, ![n].data = data ]
  BY DEF S!Throw, S!Resolve
<1>2. SlotOK(smtpCalls[n])
  BY DEF SmtpTypes
<1> DEFINE c == [ smtpCalls[n] EXCEPT !.st = st, !.data = data ]
<1>3. /\ c.kind = smtpCalls[n].kind /\ c.st = st /\ c.data = data
      /\ SlotOK(c)
  BY <1>2 DEF SlotOK
<1> HIDE DEF c
<1>4. /\ smtpCalls'[n] = c
      /\ \A k \in S!Slots \ {n} : smtpCalls'[k] = smtpCalls[k]
      /\ smtpCalls' = [ i \in S!Slots |-> smtpCalls'[i] ]
  BY <1>1 DEF SmtpTypes, c
<1> QED
  BY <1>3, <1>4 DEF SmtpAnswered, SmtpTypes

\* A call whose handler has run is gone, and no other.
SmtpSettled(n) ==
    /\ smtpCalls'[n].kind = Nil /\ smtpCalls'[n].st = "idle"
    /\ \A k \in S!Slots \ {n} : smtpCalls'[k] = smtpCalls[k]
    /\ smtpCalls' = [ i \in S!Slots |-> smtpCalls'[i] ]
    /\ \A i \in S!Slots : SlotOK(smtpCalls'[i])

LEMMA SmtpSettle ==
    ASSUME SmtpTypes, NEW n \in S!Slots, smtpCalls' = S!Settle(smtpCalls, n)
    PROVE  SmtpSettled(n)
<1>1. /\ smtpCalls'[n] = S!IdleCall
      /\ \A k \in S!Slots \ {n} : smtpCalls'[k] = smtpCalls[k]
      /\ smtpCalls' = [ i \in S!Slots |-> smtpCalls'[i] ]
  BY DEF SmtpTypes, S!Settle
<1>2. SlotOK(S!IdleCall) /\ S!IdleCall.kind = Nil /\ S!IdleCall.st = "idle"
  BY SmtpNil DEF SlotOK, S!IdleCall, SmtpKinds
<1> QED
  BY <1>1, <1>2 DEF SmtpSettled, SmtpTypes

LEMMA SmtpInit == Init => SmtpInv
<1> SUFFICES ASSUME Init PROVE SmtpInv
  OBVIOUS
<1>1. smtp \in S!Rows /\ smtpUi = S!Closed /\ smtpCalls = S!NoCalls /\ smtpGhost = FALSE
  BY DEF Init, S!Init
<1>2. SlotOK(S!IdleCall) /\ S!IdleCall.kind = Nil /\ S!IdleCall.st = "idle"
  BY SmtpNil DEF SlotOK, S!IdleCall, SmtpKinds
<1>3. S!Closed \in SmtpUi /\ S!Closed.open = FALSE
  BY DEF S!Closed, S!Fresh, SmtpUi
<1>4. smtpCalls = [ i \in S!Slots |-> S!IdleCall ]
  BY <1>1 DEF S!NoCalls
<1>5. SmtpTypes
  BY <1>1, <1>2, <1>3, <1>4 DEF SmtpTypes
<1>6. \A i \in S!Slots : ~Write(i) /\ ~Read(i) /\ smtpCalls[i].kind = Nil
  BY <1>2, <1>4, SmtpNil DEF Write, Read, SmtpKinds
<1> QED
  BY <1>1, <1>3, <1>5, <1>6, SmtpNil
     DEF SmtpInv, SmtpTable, SmtpUnread, SmtpRead, SmtpKinds

\* The page is opened, and asks for its row; or it is left.
LEMMA SmtpOpenLeave ==
    ASSUME SmtpInv, S!OpenPage \/ S!LeavePage
    PROVE  SmtpInv'
<1>n. S!NoCalls = [ i \in S!Slots |-> S!IdleCall ]
  BY DEF S!NoCalls
<1>i. SlotOK(S!IdleCall) /\ S!IdleCall.kind = Nil /\ S!IdleCall.st = "idle"
  BY SmtpNil DEF SlotOK, S!IdleCall, SmtpKinds
<1>1. CASE S!OpenPage
  <2> DEFINE n == CHOOSE k \in S!Slots : S!NoCalls[k].st = "idle"
             c == [ kind |-> "smtp.get", arg |-> Nil, st |-> "sent", data |-> Nil ]
  <2>1. 1 \in S!Slots
    BY MaxCallsAssumption DEF S!Slots
  <2>2. n \in S!Slots
    BY <1>n, <1>i, <2>1
  <2>3. smtpCalls' = [ S!NoCalls EXCEPT ![n] = c ]
    BY <1>1 DEF S!OpenPage, S!call
  <2> HIDE DEF n
  <2>4. SlotOK(c) /\ c.kind = "smtp.get" /\ c.st = "sent"
    BY SmtpNil DEF SlotOK, SmtpKinds
  <2> HIDE DEF c
  <2>5. \A k \in S!Slots : smtpCalls'[k] = IF k = n THEN c ELSE S!IdleCall
    BY <2>2, <2>3, <1>n
  <2>6. smtpCalls' = [ i \in S!Slots |-> smtpCalls'[i] ]
    BY <2>3, <1>n
  <2>7. /\ smtpUi' \in SmtpUi /\ smtpUi'.open = TRUE
        /\ smtpUi'.config = Nil /\ smtpUi'.success = Nil
        /\ smtpGhost' = FALSE /\ smtp' = smtp
    BY <1>1 DEF S!OpenPage, S!Fresh, SmtpUi
  <2>8. SmtpTypes'
    BY <2>4, <2>5, <2>6, <2>7, <1>i DEF SmtpInv, SmtpTypes
  <2>9. \A k \in S!Slots : ~Write(k)' /\ (Read(k)' <=> k = n)
                           /\ smtpCalls'[k].st # "done"
                           /\ smtpCalls'[k].kind \in { Nil, "smtp.get" }
    BY <2>4, <2>5, <1>i, SmtpNil DEF Write, Read, SmtpKinds
  <2>10. SmtpTable'
    BY <2>7, <2>9, SmtpNil DEF SmtpTable, SmtpKinds
  <2>11. SmtpUnread' /\ SmtpRead'
    BY <2>2, <2>7, <2>9 DEF SmtpUnread, SmtpRead
  <2> QED BY <2>8, <2>10, <2>11 DEF SmtpInv
<1>2. CASE S!LeavePage
  <2>1. /\ smtpUi' = S!Closed /\ smtpCalls' = S!NoCalls /\ smtpGhost' = FALSE
        /\ smtp' = smtp
    BY <1>2 DEF S!LeavePage
  <2>2. smtpUi' \in SmtpUi /\ smtpUi'.open = FALSE
    BY <2>1 DEF S!Closed, S!Fresh, SmtpUi
  <2>3. SmtpTypes'
    BY <2>1, <2>2, <1>n, <1>i DEF SmtpInv, SmtpTypes
  <2>4. \A k \in S!Slots : ~Write(k)' /\ ~Read(k)' /\ smtpCalls'[k].kind = Nil
    BY <2>1, <1>n, <1>i, SmtpNil DEF Write, Read, SmtpKinds
  <2>5. SmtpTable' /\ SmtpUnread' /\ SmtpRead'
    BY <2>2, <2>4, SmtpNil DEF SmtpTable, SmtpUnread, SmtpRead, SmtpKinds
  <2> QED BY <2>3, <2>5 DEF SmtpInv
<1> QED
  BY <1>1, <1>2

\* A field is typed.
LEMMA SmtpType ==
    ASSUME SmtpInv, NEW field \in { "from", "host", "secret" }, NEW b \in BOOLEAN,
           S!TypeField(field, b)
    PROVE  SmtpInv'
<1>1. /\ smtpUi' = [ smtpUi EXCEPT ![field] = b ]
      /\ UNCHANGED <<smtp, smtpCalls, smtpGhost>>
  BY DEF S!TypeField
<1>2. /\ smtpUi' \in SmtpUi
      /\ smtpUi'.open = smtpUi.open /\ smtpUi'.config = smtpUi.config
      /\ smtpUi'.success = smtpUi.success /\ smtpUi'.loading = smtpUi.loading
      /\ smtpUi'.deleting = smtpUi.deleting
  BY <1>1 DEF SmtpInv, SmtpTypes, SmtpUi
<1> QED
  BY <1>1, <1>2
     DEF SmtpInv, SmtpTypes, SmtpTable, SmtpUnread, SmtpRead, Write, Read, DoneWrite

\* A button is pressed: no write is in flight then.
LEMMA SmtpPress ==
    ASSUME SmtpInv, S!handleSaveFrom \/ S!handleSaveSmtp \/ S!handleRemove
    PROVE  SmtpInv'
<1>t. SmtpTypes /\ SmtpTable /\ smtpUi \in SmtpUi
  BY DEF SmtpInv, SmtpTypes
<1>1. /\ smtpUi.open /\ ~smtpUi.loading /\ ~smtpUi.deleting
      /\ S!CanCall(smtpCalls)
      /\ smtpGhost' = (smtpGhost \/ S!Early) /\ smtp' = smtp
  BY DEF S!handleSaveFrom, S!handleSaveSmtp, S!handleRemove, S!CanSaveFrom,
         S!CanSaveSmtp, S!CanRemove, S!Idle
<1>2. PICK kind \in { "smtp.upsert", "smtp.delete" } :
        /\ kind = "smtp.upsert" => smtpUi' = [ smtpUi EXCEPT !.success = Nil, !.loading = TRUE ]
        /\ kind = "smtp.delete" => smtpUi' = [ smtpUi EXCEPT !.success = Nil, !.deleting = TRUE ]
        /\ \E n \in S!Slots : SmtpCalled(n, kind)
  <2>1. CASE S!handleSaveFrom
    <3>1. smtpCalls' = S!call(smtpCalls, "smtp.upsert", "from")
      BY <2>1 DEF S!handleSaveFrom
    <3>2. \E n \in S!Slots : SmtpCalled(n, "smtp.upsert")
      BY <3>1, <1>t, <1>1, SmtpCall, SmtpNil DEF SmtpKinds
    <3> QED BY <2>1, <3>2 DEF S!handleSaveFrom
  <2>2. CASE S!handleSaveSmtp
    <3>1. smtpCalls' = S!call(smtpCalls, "smtp.upsert", S!SmtpInput)
      BY <2>2 DEF S!handleSaveSmtp
    <3>2. S!SmtpInput \in { "own", "invalid" }
      BY DEF S!SmtpInput
    <3>3. \E n \in S!Slots : SmtpCalled(n, "smtp.upsert")
      BY <3>1, <3>2, <1>t, <1>1, SmtpCall, SmtpNil DEF SmtpKinds
    <3> QED BY <2>2, <3>3 DEF S!handleSaveSmtp
  <2>3. CASE S!handleRemove
    <3>1. smtpCalls' = S!call(smtpCalls, "smtp.delete", Nil)
      BY <2>3 DEF S!handleRemove
    <3>2. \E n \in S!Slots : SmtpCalled(n, "smtp.delete")
      BY <3>1, <1>t, <1>1, SmtpCall, SmtpNil DEF SmtpKinds
    <3> QED BY <2>3, <3>2 DEF S!handleRemove
  <2> QED BY <2>1, <2>2, <2>3
<1>3. PICK n \in S!Slots : SmtpCalled(n, kind)
  BY <1>2
<1>4. /\ smtpUi' \in SmtpUi /\ smtpUi'.open = TRUE
      /\ smtpUi'.config = smtpUi.config /\ smtpUi'.success = Nil
      /\ kind = "smtp.upsert" => smtpUi'.loading
      /\ kind = "smtp.delete" => smtpUi'.deleting
  BY <1>t, <1>1, <1>2 DEF SmtpUi
<1>5. S!Early <=> \E i \in S!Slots : Read(i)
  BY DEF S!Early, S!Pending, S!InFlight, Read
<1>6. SmtpTypes'
  BY <1>t, <1>1, <1>3, <1>4, <1>5 DEF SmtpTypes, SmtpCalled
<1>7. \A i \in S!Slots : ~Write(i)
  BY <1>1, <1>t DEF SmtpTable, Write
<1>8. \A i \in S!Slots : /\ Write(i)' <=> i = n
                         /\ Read(i)' <=> Read(i)
                         /\ smtpCalls'[i].st = "done"
                              => smtpCalls[i].st = "done" /\ smtpCalls'[i] = smtpCalls[i]
  BY <1>3, <1>7, SmtpNil DEF Write, Read, SmtpCalled, SmtpKinds
<1>9. SmtpTable'
  BY <1>t, <1>3, <1>4, <1>7, <1>8 DEF SmtpTable, SmtpCalled, Write
<1>10. SmtpUnread'
  BY <1>1, <1>5, <1>8 DEF SmtpUnread
<1>11. SmtpRead'
  <2> SUFFICES ASSUME ~smtpGhost', \A i \in S!Slots : ~Read(i)'
               PROVE  /\ S!RowOf(smtpUi.config) = smtp
                      /\ \A i \in S!Slots : smtpCalls'[i].st = "done" => smtpCalls'[i].data = smtp
    BY <1>1, <1>4 DEF SmtpRead
  <2>1. ~smtpGhost /\ \A i \in S!Slots : ~Read(i)
    BY <1>1, <1>8
  <2>2. ~DoneWrite
    BY <1>7 DEF DoneWrite
  <2> QED BY <2>1, <2>2, <1>1, <1>8 DEF SmtpInv, SmtpRead
<1> QED
  BY <1>6, <1>9, <1>10, <1>11 DEF SmtpInv

\* The server does what it is asked, or refuses; an answer gets lost.
LEMMA SmtpServer ==
    ASSUME SmtpInv, NEW n \in S!Slots, S!Serve(n) \/ S!LoseAnswer(n)
    PROVE  SmtpInv'
<1>t. SmtpTypes /\ SmtpTable /\ SlotOK(smtpCalls[n])
  BY DEF SmtpInv, SmtpTypes
<1>1. /\ smtpUi' = smtpUi
      /\ \E st, data :
           /\ smtpCalls[n].st \in { "sent", "done" }
           /\ SmtpAnswered(n, st, data)
           /\ \/ /\ smtpCalls[n].kind = "smtp.get" /\ st = "done" /\ data = smtp
                 /\ smtpCalls[n].st = "sent" /\ UNCHANGED <<smtp, smtpGhost>>
              \/ /\ Write(n) /\ st = "done" /\ data = smtp' /\ smtp' \in S!Rows
                 /\ smtpCalls[n].st = "sent" /\ UNCHANGED smtpGhost
              \/ /\ st = "failed" /\ UNCHANGED smtp
                 /\ \/ smtpCalls[n].st = "sent" /\ smtpGhost' = smtpGhost
                    \/ /\ smtpCalls[n].st = "done"
                       /\ smtpGhost' = (smtpGhost \/ Write(n))
  <2>1. CASE S!ServeGet(n)
    <3>1. SmtpAnswered(n, "done", smtp)
      BY <2>1, <1>t, SmtpAnswer DEF S!ServeGet, S!Sent, SmtpTypes
    <3> QED BY <2>1, <3>1 DEF S!ServeGet, S!Sent
  <2>2. CASE S!ServeUpsert(n)
    <3>1. smtp' \in S!Rows
      BY <2>2, <1>t DEF S!ServeUpsert, S!Sent, SlotOK
    <3>2. SmtpAnswered(n, "done", smtp')
      BY <2>2, <3>1, <1>t, SmtpAnswer DEF S!ServeUpsert, S!Sent
    <3> QED BY <2>2, <3>1, <3>2 DEF S!ServeUpsert, S!Sent, Write
  <2>3. CASE S!ServeDelete(n)
    <3>1. smtp' = "none" /\ smtp' \in S!Rows
      BY <2>3, SmtpNil DEF S!ServeDelete
    <3>2. SmtpAnswered(n, "done", smtp')
      BY <2>3, <3>1, <1>t, SmtpAnswer DEF S!ServeDelete, S!Sent
    <3> QED BY <2>3, <3>1, <3>2 DEF S!ServeDelete, S!Sent, Write
  <2>4. CASE S!Refuse(n)
    <3>1. SmtpAnswered(n, "failed", Nil)
      BY <2>4, <1>t, SmtpAnswer DEF S!Refuse
    <3> QED BY <2>4, <3>1 DEF S!Refuse
  <2>5. CASE S!LoseAnswer(n)
    <3>1. SmtpAnswered(n, "failed", Nil)
      BY <2>5, <1>t, SmtpAnswer DEF S!LoseAnswer
    <3>2. smtpCalls[n].kind \in S!Writes <=> Write(n)
      BY <1>t, NilAssumption DEF SlotOK, SmtpKinds, S!Writes, Write, Endpoints, Writes
    <3> QED BY <2>5, <3>1, <3>2 DEF S!LoseAnswer
  <2> QED BY <2>1, <2>2, <2>3, <2>4, <2>5 DEF S!Serve
<1>u. smtpUi' = smtpUi
  BY <1>1
<1>g. ~smtpGhost' => ~smtpGhost
  BY <1>1, <1>t DEF SmtpTypes
<1>2. \A i \in S!Slots : /\ Write(i)' <=> Write(i)
                         /\ Read(i)' <=> Read(i)
                         /\ smtpCalls'[i].kind = smtpCalls[i].kind
                         /\ i # n => smtpCalls'[i] = smtpCalls[i]
  BY <1>1 DEF SmtpAnswered, Write, Read
<1>3. SmtpTypes'
  BY <1>t, <1>1 DEF SmtpTypes, SmtpAnswered
<1>4. SmtpTable'
  BY <1>t, <1>1, <1>2 DEF SmtpTable
<1>5. Write(n) => ~Read(n) /\ smtpCalls[n].kind # Nil
  BY <1>t, SmtpNil DEF Write, Read, SmtpKinds
<1>6. SmtpUnread'
  <2> SUFFICES ASSUME NEW k \in S!Slots, Read(k)', ~smtpGhost'
               PROVE  /\ smtpUi.config = Nil /\ smtpUi.success = Nil
                      /\ \A i \in S!Slots :
                           /\ ~Write(i)'
                           /\ smtpCalls'[i].st = "done" => smtpCalls'[i].data = smtp'
    BY <1>u DEF SmtpUnread
  <2>1. Read(k) /\ ~smtpGhost
    BY <1>g, <1>2
  <2>2. /\ smtpUi.config = Nil /\ smtpUi.success = Nil
        /\ \A i \in S!Slots : /\ ~Write(i)
                              /\ smtpCalls[i].st = "done" => smtpCalls[i].data = smtp
    BY <2>1 DEF SmtpInv, SmtpUnread
  <2> QED BY <2>2, <1>1, <1>2 DEF SmtpAnswered
<1>7. SmtpRead'
  <2> SUFFICES ASSUME smtpUi.open, ~smtpGhost', \A i \in S!Slots : ~Read(i)'
               PROVE  /\ DoneWrite' \/ S!RowOf(smtpUi.config) = smtp'
                      /\ smtpUi.success # Nil => S!RowOf(smtpUi.config) = smtpUi.success
                      /\ \A i \in S!Slots : smtpCalls'[i].st = "done" => smtpCalls'[i].data = smtp'
    BY <1>u DEF SmtpRead
  <2>1. ~smtpGhost /\ \A i \in S!Slots : ~Read(i)
    BY <1>g, <1>2
  <2>2. /\ DoneWrite \/ S!RowOf(smtpUi.config) = smtp
        /\ smtpUi.success # Nil => S!RowOf(smtpUi.config) = smtpUi.success
        /\ \A i \in S!Slots : smtpCalls[i].st = "done" => smtpCalls[i].data = smtp
    BY <2>1 DEF SmtpInv, SmtpRead
  <2>3. \A i \in S!Slots : smtpCalls[i].st = "done" => Write(i)
    BY <1>t, <2>1 DEF SmtpTypes, SlotOK, SmtpKinds, Write, Read
  <2>4. CASE Write(n) /\ smtpCalls'[n].st = "done"
    <3>1. smtpCalls'[n].data = smtp' /\ DoneWrite'
      BY <2>4, <1>1, <1>2 DEF SmtpAnswered, DoneWrite
    <3>2. \A i \in S!Slots : smtpCalls'[i].st = "done" => i = n
      BY <2>3, <2>4, <1>2, <1>t DEF SmtpTable
    <3> QED BY <2>2, <3>1, <3>2
  <2>5. CASE ~(Write(n) /\ smtpCalls'[n].st = "done")
    <3>1. smtpCalls'[n].st = "failed" /\ smtp' = smtp /\ smtpCalls[n].st = "sent"
      BY <2>1, <2>3, <2>5, <1>1 DEF SmtpAnswered, Read
    <3>2. DoneWrite => DoneWrite'
      BY <3>1, <1>2 DEF DoneWrite
    <3> QED BY <2>2, <3>1, <3>2, <1>2
  <2> QED BY <2>4, <2>5
<1> QED
  BY <1>3, <1>4, <1>6, <1>7 DEF SmtpInv

\* The configuration is saved or removed in another tab.
LEMMA SmtpElsewhere ==
    ASSUME SmtpInv, S!Elsewhere
    PROVE  SmtpInv'
<1>1. /\ smtp' \in S!Rows /\ UNCHANGED <<smtpUi, smtpCalls>>
      /\ smtpGhost' = (smtpGhost \/ (smtpUi.open /\ ~\E i \in S!Slots : S!Sent(i, "smtp.get")))
  BY DEF S!Elsewhere, S!ChangeElsewhere
<1>2. SmtpTypes' /\ SmtpTable'
  BY <1>1 DEF SmtpInv, SmtpTypes, SmtpTable, Write, Read
<1>3. SmtpUnread'
  <2> SUFFICES ASSUME NEW k \in S!Slots, Read(k), ~smtpGhost'
               PROVE  /\ smtpUi.config = Nil /\ smtpUi.success = Nil
                      /\ \A i \in S!Slots : /\ ~Write(i)
                                            /\ smtpCalls[i].st # "done"
    BY <1>1 DEF SmtpUnread, Write, Read
  <2>1. smtpUi.open
    BY SmtpNil DEF SmtpInv, SmtpTypes, SmtpTable, SmtpUi, Read, SmtpKinds
  <2>2. ~smtpGhost /\ \E i \in S!Slots : S!Sent(i, "smtp.get")
    BY <1>1, <2>1 DEF SmtpInv, SmtpTypes
  <2>3. smtpCalls[k].st = "sent"
    BY <2>2 DEF S!Sent, SmtpInv, SmtpTable, Read
  <2>4. /\ smtpUi.config = Nil /\ smtpUi.success = Nil
        /\ \A i \in S!Slots : ~Write(i)
    BY <2>2 DEF SmtpInv, SmtpUnread
  <2>5. \A i \in S!Slots : smtpCalls[i].st = "done" => Read(i)
    BY <2>4 DEF SmtpInv, SmtpTypes, SlotOK, SmtpKinds, Read, Write
  <2> QED BY <2>3, <2>4, <2>5 DEF SmtpInv, SmtpTable
<1>4. SmtpRead'
  <2> SUFFICES ASSUME smtpUi.open, ~smtpGhost', \A i \in S!Slots : ~Read(i)
               PROVE  FALSE
    BY <1>1 DEF SmtpRead, Read
  <2>1. \E i \in S!Slots : S!Sent(i, "smtp.get")
    BY <1>1 DEF SmtpInv, SmtpTypes
  <2> QED BY <2>1 DEF S!Sent, Read
<1> QED
  BY <1>2, <1>3, <1>4 DEF SmtpInv

\* The row arrives, or the page learns that it does not.
LEMMA SmtpTakeGet ==
    ASSUME SmtpInv, NEW n \in S!Slots, S!TakeGet(n)
    PROVE  SmtpInv'
<1>t. SmtpTypes /\ SmtpTable /\ SlotOK(smtpCalls[n]) /\ smtpUi \in SmtpUi
  BY DEF SmtpInv, SmtpTypes
<1>1. /\ Read(n) /\ smtp' = smtp
      /\ smtpGhost' = (smtpGhost \/ ~S!Ok(n))
      /\ smtpUi' = IF ~S!Ok(n) THEN smtpUi
             ELSE [ smtpUi EXCEPT !.config = smtpCalls[n].data,
                              !.from   = smtpCalls[n].data # "none",
                              !.host   = @ \/ smtpCalls[n].data = "own",
                              !.secret = @ /\ smtpCalls[n].data # "own" ]
  BY DEF S!TakeGet, S!Answered, Read
<1>2. SmtpSettled(n)
  BY <1>t, SmtpSettle DEF S!TakeGet
<1>3. /\ smtpUi' \in SmtpUi /\ smtpUi'.open = smtpUi.open
      /\ smtpUi'.success = smtpUi.success /\ smtpUi'.loading = smtpUi.loading
      /\ smtpUi'.deleting = smtpUi.deleting
      /\ S!Ok(n) => smtpUi'.config = smtpCalls[n].data
  <2>1. CASE ~S!Ok(n)
    BY <2>1, <1>1, <1>t
  <2>2. CASE S!Ok(n)
    <3>1. smtpCalls[n].data \in S!Rows
      BY <2>2, <1>t DEF S!Ok, SlotOK
    <3> QED BY <2>2, <3>1, <1>1, <1>t, ZenonT(60) DEF SmtpUi
  <2> QED BY <2>1, <2>2
<1>4. SmtpTypes'
  BY <1>t, <1>1, <1>2, <1>3 DEF SmtpTypes, SmtpSettled
<1>5. \A i \in S!Slots : /\ Write(i)' <=> Write(i)
                         /\ ~Read(i)'
                         /\ i # n => smtpCalls'[i] = smtpCalls[i]
                         /\ smtpCalls'[i].kind = smtpCalls[i].kind
                              \/ smtpCalls'[i].kind = Nil
  BY <1>t, <1>1, <1>2, SmtpNil DEF SmtpSettled, Write, Read, SmtpTable, SmtpKinds
<1>6. SmtpTable'
  BY <1>t, <1>3, <1>5, SmtpNil DEF SmtpTable, SmtpKinds
<1>7. SmtpUnread'
  BY <1>5 DEF SmtpUnread
<1>8. SmtpRead'
  <2> SUFFICES ASSUME ~smtpGhost'
               PROVE  /\ S!RowOf(smtpUi'.config) = smtp
                      /\ smtpUi'.success = Nil
                      /\ \A i \in S!Slots : smtpCalls'[i].st # "done"
    BY <1>1 DEF SmtpRead
  <2>1. ~smtpGhost /\ S!Ok(n)
    BY <1>1, <1>t DEF SmtpTypes
  <2>2. /\ smtpUi.success = Nil /\ smtpCalls[n].data = smtp
        /\ \A i \in S!Slots : ~Write(i)
    BY <1>1, <2>1 DEF SmtpInv, SmtpUnread, S!Ok
  <2>3. S!RowOf(smtpUi'.config) = smtp
    BY <1>3, <1>t, <2>1, <2>2, SmtpNil DEF SmtpTypes
  <2>4. \A i \in S!Slots : smtpCalls'[i].st = "done" => Write(i)' \/ Read(i)'
    BY <1>4 DEF SmtpTypes, SlotOK, SmtpKinds, Write, Read
  <2> QED BY <1>3, <1>5, <2>2, <2>3, <2>4
<1> QED
  BY <1>4, <1>6, <1>7, <1>8 DEF SmtpInv

\* The answer to a write arrives.
LEMMA SmtpTakeWrite ==
    ASSUME SmtpInv, NEW n \in S!Slots, S!TakeUpsert(n) \/ S!TakeDelete(n)
    PROVE  SmtpInv'
<1>t. SmtpTypes /\ SmtpTable /\ SlotOK(smtpCalls[n]) /\ smtpUi \in SmtpUi
  BY DEF SmtpInv, SmtpTypes
<1>1. Write(n) /\ UNCHANGED <<smtp, smtpGhost>>
  BY DEF S!TakeUpsert, S!TakeDelete, S!Answered, Write
<1>2. SmtpSettled(n)
  BY <1>t, SmtpSettle DEF S!TakeUpsert, S!TakeDelete
<1>3. /\ smtpUi' \in SmtpUi /\ smtpUi'.open = smtpUi.open
      /\ S!Ok(n) => /\ S!RowOf(smtpUi'.config) = smtpCalls[n].data
                    /\ smtpUi'.success = smtpCalls[n].data
      /\ ~S!Ok(n) => smtpUi'.config = smtpUi.config /\ smtpUi'.success = smtpUi.success
  <2>1. CASE S!TakeUpsert(n) /\ S!Ok(n)
    <3>1. smtpCalls[n].data \in S!Rows
      BY <2>1, <1>t DEF S!Ok, SlotOK
    <3> QED BY <2>1, <3>1, <1>t, SmtpNil DEF SmtpUi, S!TakeUpsert
  <2>2. CASE S!TakeDelete(n) /\ S!Ok(n)
    <3>1. smtpCalls[n].data = "none"
      BY <2>2, <1>t DEF S!Ok, SlotOK, S!TakeDelete, S!Answered
    <3> QED BY <2>2, <3>1, <1>t, SmtpNil DEF SmtpUi, S!TakeDelete
  <2>3. CASE ~S!Ok(n)
    BY <2>3, <1>t DEF SmtpUi, S!TakeUpsert, S!TakeDelete
  <2> QED BY <2>1, <2>2, <2>3
<1>4. SmtpTypes'
  BY <1>t, <1>1, <1>2, <1>3 DEF SmtpTypes, SmtpSettled
<1>5. \A i \in S!Slots : /\ ~Write(i)'
                         /\ Read(i)' <=> Read(i)
                         /\ i # n => smtpCalls'[i] = smtpCalls[i]
                         /\ smtpCalls'[i].kind = smtpCalls[i].kind
                              \/ smtpCalls'[i].kind = Nil
  BY <1>t, <1>1, <1>2, SmtpNil DEF SmtpSettled, Write, Read, SmtpTable, SmtpKinds
<1>6. SmtpTable'
  BY <1>t, <1>3, <1>5, SmtpNil DEF SmtpTable, SmtpKinds, Write
<1>7. SmtpUnread'
  BY <1>1, <1>5 DEF SmtpUnread, SmtpInv
<1>8. SmtpRead'
  <2> SUFFICES ASSUME smtpUi.open, ~smtpGhost, \A i \in S!Slots : ~Read(i)
               PROVE  /\ S!RowOf(smtpUi'.config) = smtp
                      /\ smtpUi'.success # Nil => S!RowOf(smtpUi'.config) = smtpUi'.success
                      /\ \A i \in S!Slots : smtpCalls'[i].st # "done"
    BY <1>1, <1>3, <1>5 DEF SmtpRead
  <2>1. /\ DoneWrite \/ S!RowOf(smtpUi.config) = smtp
        /\ smtpUi.success # Nil => S!RowOf(smtpUi.config) = smtpUi.success
        /\ \A i \in S!Slots : smtpCalls[i].st = "done" => smtpCalls[i].data = smtp
    BY DEF SmtpInv, SmtpRead
  <2>2. DoneWrite => S!Ok(n)
    BY <1>t, <1>1 DEF DoneWrite, SmtpTable, S!Ok
  <2>3. S!Ok(n) => smtpCalls[n].data = smtp
    BY <2>1 DEF S!Ok
  <2>4. \A i \in S!Slots : smtpCalls'[i].st = "done" => Write(i)' \/ Read(i)'
    BY <1>4 DEF SmtpTypes, SlotOK, SmtpKinds, Write, Read
  <2> QED BY <1>3, <1>5, <2>1, <2>2, <2>3, <2>4
<1> QED
  BY <1>4, <1>6, <1>7, <1>8 DEF SmtpInv

\* The other pages read the row and never write it.
LEMMA HomeKeepsSmtp == H!OnPage \/ H!OpenPage \/ H!LeavePage => smtp' = smtp
BY DEF H!OnPage, H!OpenPage, H!LeavePage, H!ContextChanges, H!Render,
       H!CountEmails, H!ListFailures, H!ReadTables, H!ServeStats, H!Reading,
       H!Fail, H!TakeStats, H!Logged, H!server

LEMMA SmtpInductive == SmtpInv /\ [Next]_vars => SmtpInv'
<1> SUFFICES ASSUME SmtpInv, [Next]_vars PROVE SmtpInv'
  OBVIOUS
<1>1. CASE UNCHANGED <<smtp, smtpPage>>
  BY <1>1 DEF smtpPage, SmtpInv, SmtpTypes, SmtpTable, SmtpUnread, SmtpRead,
              Write, Read, DoneWrite
<1>2. CASE S!OpenPage \/ S!LeavePage
  BY <1>2, SmtpOpenLeave
<1>3. CASE S!OnPage
  <2>1. ASSUME NEW n \in S!Slots, S!Take(n) PROVE SmtpInv'
    BY <2>1, SmtpTakeGet, SmtpTakeWrite DEF S!Take
  <2> QED
    BY <1>3, <2>1, SmtpType, SmtpPress, SmtpServer DEF S!OnPage
<1>4. CASE S!Elsewhere
  BY <1>4, SmtpElsewhere
<1> QED
  BY <1>1, <1>2, <1>3, <1>4, HomeKeepsSmtp
     DEF Next, Navigate, SmtpStep, HomeStep, SendStep, Elsewhere, vars, rows

\* What the page says of the configuration - banner, sections, the message of
\* the last success - is the server's row, or the row an answer on its way
\* brings: smtp/page.tsx reads the row once and then only follows its own
\* writes, of which there is one at a time.
THEOREM ConsoleSmtpPageIsTrue == Spec => []SmtpPageIsTrue
<1>1. SmtpInv => SmtpPageIsTrue
  <2> SUFFICES ASSUME SmtpInv, smtpUi.open, ~S!Early, ~smtpGhost
               PROVE  /\ \/ S!RowOf(smtpUi.config) = smtp
                         \/ \E i \in S!Slots : smtpCalls[i].st = "done" /\ smtpCalls[i].data = smtp
                      /\ smtpUi.success # Nil => S!RowOf(smtpUi.config) = smtpUi.success
                      /\ S!Cardinality({ i \in S!Slots : smtpCalls[i].kind \in S!Writes }) <= 1
    BY DEF SmtpPageIsTrue, S!SmtpPageIsTrue
  <2>1. \A i \in S!Slots : ~Read(i)
    BY DEF S!Early, S!Pending, S!InFlight, Read
  <2>2. /\ DoneWrite \/ S!RowOf(smtpUi.config) = smtp
        /\ smtpUi.success # Nil => S!RowOf(smtpUi.config) = smtpUi.success
        /\ \A i \in S!Slots : smtpCalls[i].st = "done" => smtpCalls[i].data = smtp
    BY <2>1 DEF SmtpInv, SmtpRead
  <2> DEFINE W == { i \in S!Slots : smtpCalls[i].kind \in S!Writes }
  <2>3. \A i \in W : Write(i)
    BY NilAssumption DEF SmtpInv, SmtpTypes, SlotOK, SmtpKinds, S!Writes, Write,
                         Endpoints, Writes
  <2>4. \A i, k \in W : i = k
    BY <2>3 DEF SmtpInv, SmtpTable
  <2>5. W = {} \/ \E i \in W : W = {i}
    BY <2>4
  <2>6. Cardinality(W) <= 1
    <3>1. W = {} => Cardinality(W) = 0
      BY FS_EmptySet
    <3>2. \A x : Cardinality({x}) = 1
      BY FS_Singleton
    <3> HIDE DEF W
    <3> QED BY <2>5, <3>1, <3>2
  <2>7. S!Cardinality(W) = Cardinality(W)
    BY DEF S!Cardinality, Cardinality
  <2> QED BY <2>2, <2>6, <2>7 DEF DoneWrite
<1> QED
  BY <1>1, SmtpInit, SmtpInductive, PTL DEF Spec
-----------------------------------------------------------------------------
(* The overview.  First what `the newest n rows' are, for any set of places. *)

LEMMA HomeCardinality == \A s : H!Cardinality(s) = Cardinality(s)
BY DEF H!Cardinality, Cardinality

\* A set of places has an oldest and a newest.
NatLess == { p \in Nat \X Nat : p[1] < p[2] }

LEMMA Oldest ==
    ASSUME NEW T, T \subseteq Nat, T # {}
    PROVE  \E x \in T : \A y \in T : x <= y
<1>1. IsWellFoundedOn(NatLess, Nat)
  BY NatLessThanWellFounded DEF NatLess, OpToRel
<1>2. \E x \in T : \A y \in T : <<y, x>> \notin NatLess
  BY <1>1, WFMin
<1>3. PICK x \in T : \A y \in T : <<y, x>> \notin NatLess
  BY <1>2
<1>4. \A y \in T : ~(y < x)
  BY <1>3 DEF NatLess
<1> QED
  BY <1>4

LEMMA NewestOf ==
    ASSUME NEW n \in Nat, NEW T, T \subseteq 1 .. n, T # {}
    PROVE  \E x \in T : \A y \in T : y <= x
<1> DEFINE D == { n - x : x \in T }
<1>0. \A x \in T : x \in Nat /\ n - x \in Nat
  OBVIOUS
<1>1. D \subseteq Nat /\ D # {}
  BY <1>0
<1>2. PICK d \in D : \A e \in D : d <= e
  BY <1>1, Oldest
<1>3. PICK x \in T : d = n - x
  OBVIOUS
<1>4. \A y \in T : n - y \in D
  OBVIOUS
<1>5. \A y \in T : n - x <= n - y
  BY <1>2, <1>3, <1>4
<1> QED
  BY <1>0, <1>5

LEMMA Places ==
    ASSUME NEW n \in Nat, NEW T, T \subseteq 1 .. n
    PROVE  IsFiniteSet(T) /\ Cardinality(T) \in Nat
<1>1. IsFiniteSet(1 .. n)
  BY FS_Interval
<1>2. IsFiniteSet(T)
  BY <1>1, FS_Subset
<1> QED
  BY <1>2, FS_CardinalityType

\* The newest n: at most n of them, all of them when there are no more, some
\* when there is one, and whoever is not among them has n newer ones that are.
LEMMA NewestRows ==
    ASSUME NEW len \in Nat, NEW rowset, rowset \subseteq 1 .. len, NEW n \in Nat
    PROVE  /\ H!Newest(rowset, n) \subseteq rowset
           /\ Cardinality(H!Newest(rowset, n)) <= n
           /\ Cardinality(rowset) <= n => H!Newest(rowset, n) = rowset
           /\ n > 0 /\ rowset # {} => H!Newest(rowset, n) # {}
           /\ \A k \in rowset \ H!Newest(rowset, n) :
                Cardinality({ j \in H!Newest(rowset, n) : j > k }) >= n
<1> DEFINE above(k) == { j \in rowset : j > k }
           N == H!Newest(rowset, n)
<1>1. N = { k \in rowset : Cardinality(above(k)) < n }
  BY HomeCardinality DEF H!Newest
<1>2. \A k : above(k) \subseteq 1 .. len /\ above(k) \subseteq rowset
  OBVIOUS
<1>3. \A k : IsFiniteSet(above(k)) /\ Cardinality(above(k)) \in Nat
  BY <1>2, Places
<1>4. IsFiniteSet(N) /\ Cardinality(N) \in Nat /\ N \subseteq 1 .. len
  BY <1>1, Places
<1> HIDE DEF N
<1>5. Cardinality(N) <= n
  <2>1. CASE N = {}
    BY <2>1, FS_EmptySet
  <2>2. CASE N # {}
    <3>0. N \subseteq Nat
      BY <1>4
    <3>1. PICK m \in N : \A y \in N : m <= y
      BY <3>0, <2>2, Oldest
    <3>2. N \subseteq above(m) \cup {m}
      BY <1>1, <1>4, <3>1
    <3>3. m \notin above(m) /\ Cardinality(above(m)) < n
      BY <1>1, <1>4, <3>1
    <3> HIDE DEF above
    <3>4. /\ IsFiniteSet(above(m) \cup {m})
          /\ Cardinality(above(m) \cup {m}) = Cardinality(above(m)) + 1
      BY <1>3, <3>3, FS_AddElement
    <3>5. Cardinality(N) <= Cardinality(above(m) \cup {m})
      BY <3>2, <3>4, FS_Subset
    <3> QED BY <1>3, <1>4, <3>3, <3>4, <3>5
  <2> QED BY <2>1, <2>2
<1>6. ASSUME Cardinality(rowset) <= n PROVE N = rowset
  <2> SUFFICES ASSUME NEW k \in rowset PROVE Cardinality(above(k)) < n
    BY <1>1
  <2>1. above(k) \subseteq rowset /\ above(k) # rowset
    OBVIOUS
  <2>2. IsFiniteSet(rowset) /\ Cardinality(rowset) \in Nat
    BY Places
  <2> HIDE DEF above
  <2>3. Cardinality(above(k)) < Cardinality(rowset)
    BY <1>3, <2>1, <2>2, FS_Subset
  <2> QED BY <1>3, <1>6, <2>2, <2>3
<1>7. ASSUME n > 0, rowset # {} PROVE N # {}
  <2>1. PICK x \in rowset : \A y \in rowset : y <= x
    BY <1>7, NewestOf
  <2>2. above(x) = {}
    <3> SUFFICES ASSUME NEW y \in rowset, y > x PROVE FALSE
      OBVIOUS
    <3>1. y <= x /\ x \in Nat /\ y \in Nat
      BY <2>1
    <3> QED BY <3>1
  <2> HIDE DEF above
  <2> QED BY <1>1, <1>7, <2>1, <2>2, FS_EmptySet
<1>8. ASSUME NEW k \in rowset \ N PROVE Cardinality({ j \in N : j > k }) >= n
  <2> DEFINE shown == { j \in N : j > k }
             cut   == above(k) \ N
  <2> SUFFICES Cardinality(shown) >= n
    OBVIOUS
  <2>0. shown \subseteq 1 .. len /\ cut \subseteq 1 .. len
    BY <1>4
  <2>t. IsFiniteSet(shown) /\ Cardinality(shown) \in Nat
    BY <2>0, Places
  <2>1. CASE cut = {}
    <3>1. shown = above(k)
      BY <2>1, <1>1
    <3>2. ~(Cardinality(above(k)) < n)
      BY <1>1
    <3> HIDE DEF above, shown
    <3> QED BY <1>3, <3>1, <3>2
  <2>2. CASE cut # {}
    <3>1. PICK b \in cut : \A y \in cut : y <= b
      BY <2>0, <2>2, NewestOf
    <3>2. above(b) \subseteq shown
      <4> SUFFICES ASSUME NEW j \in rowset, j > b PROVE j > k /\ j \in N
        OBVIOUS
      <4>1. j > k
        BY <3>1
      <4>2. ~(j <= b)
        BY <3>1
      <4> QED BY <3>1, <4>1, <4>2
    <3>3. ~(Cardinality(above(b)) < n)
      BY <1>1, <3>1
    <3> HIDE DEF above, shown
    <3>4. Cardinality(above(b)) <= Cardinality(shown)
      BY <2>t, <3>2, FS_Subset
    <3> QED BY <1>3, <2>t, <3>3, <3>4
  <2> QED BY <2>1, <2>2
<1> QED
  BY <1>1, <1>5, <1>6, <1>7, <1>8 DEF N

-----------------------------------------------------------------------------
(* What a reading of the statistics can hold.  Each of its queries saw the   *)
(* rows of the log, `lg', up to some place, not before where it began.       *)

RowsUpTo(lg, statuses, t) == { k \in 1 .. t : lg[k] \in statuses }
EmailsAt(lg, t) == Cardinality(RowsUpTo(lg, H!Emails, t))
FailedAt(lg, t) == Cardinality({ k \in H!Newest(RowsUpTo(lg, H!Emails, t), LogLimit) :
                                lg[k] = "failed" })

Since(lg, d) == d.asOf .. Len(lg)

\* The parts of a reading, in the order in which its queries fill them in.
Counted(lg, d) == d.asOf \in 0 .. Len(lg)
Totalled(lg, d) == d.total = EmailsAt(lg, d.asOf)
Split(lg, d) ==
    \E t \in Since(lg, d) : /\ d.total_emails_failed = FailedAt(lg, t)
                        /\ d.total_emails_sent = EmailsAt(lg, d.asOf) - FailedAt(lg, t)
Listed(lg, d) ==
    \E t \in Since(lg, d) :
       d.recent_email_logs = H!Newest(RowsUpTo(lg, H!Emails, t), Recent)
Ran(lg, d) ==
    \E t \in Since(lg, d) :
       d.recent_job_executions = H!Newest(RowsUpTo(lg, { "run" }, t), Recent)

\* Every field of a finished reading.
StatsRecord(d) ==
    d = [ step |-> d.step, asOf |-> d.asOf,
          total_emails_sent     |-> d.total_emails_sent,
          total_emails_failed   |-> d.total_emails_failed,
          total_api_keys        |-> d.total_api_keys,
          has_smtp_config       |-> d.has_smtp_config,
          recent_email_logs     |-> d.recent_email_logs,
          recent_job_executions |-> d.recent_job_executions ]

ReadingOK(lg, d) ==
    /\ Counted(lg, d)
    /\ d.step = 1 => Totalled(lg, d)
    /\ d.step = 2 => Split(lg, d)
    /\ d.step = 3 => StatsRecord(d) /\ Split(lg, d) /\ Listed(lg, d)

StatsOK(lg, d) == StatsRecord(d) /\ Counted(lg, d) /\ Split(lg, d) /\ Listed(lg, d) /\ Ran(lg, d)

HomeCallOK(lg, c) ==
    /\ c = [ kind |-> c.kind, arg |-> c.arg, st |-> c.st, data |-> c.data ]
    /\ c.st \in { "idle", "sent", "done", "failed" }
    /\ c.st = "sent" /\ c.data # Nil => ReadingOK(lg, c.data)
    /\ c.st = "done" /\ c.data # Nil => StatsOK(lg, c.data)
    /\ c.st \in { "idle", "failed" } => c.data = Nil

HomeTypes ==
    /\ log \in Seq(H!Statuses)
    /\ homeUi = [ open |-> homeUi.open, stats |-> homeUi.stats,
                  error |-> homeUi.error, dirty |-> homeUi.dirty ]
    /\ homeUi.stats # Nil => StatsOK(log, homeUi.stats)
    /\ homeCalls = [ i \in H!Slots |-> homeCalls[i] ]
    /\ \A i \in H!Slots : HomeCallOK(log, homeCalls[i])

\* Each render cancels the reading before it, so that there is one ...
OneReading ==
    \A i, k \in H!Slots :
       homeCalls[i].st # "idle" /\ homeCalls[k].st # "idle" => i = k

\* ... and it began no earlier than the one the page shows.
NoOlderReading ==
    \A i \in H!Slots :
       homeCalls[i].data # Nil /\ homeUi.stats # Nil
         => homeCalls[i].data.asOf >= homeUi.stats.asOf

HomeInv == HomeTypes /\ OneReading /\ NoOlderReading

\* The log is only added to while the page is open, and what a reading saw of
\* it stays what it was.
Grows(lg, more) ==
    /\ Len(lg) \in Nat /\ Len(more) \in Nat /\ Len(lg) <= Len(more)
    /\ \A k \in 1 .. Len(lg) : more[k] = lg[k]

LEMMA SameRows ==
    ASSUME NEW lg, NEW more, Grows(lg, more), NEW t \in 0 .. Len(lg)
    PROVE  /\ \A statuses : RowsUpTo(more, statuses, t) = RowsUpTo(lg, statuses, t)
           /\ EmailsAt(more, t) = EmailsAt(lg, t)
           /\ FailedAt(more, t) = FailedAt(lg, t)
<1>1. \A statuses : RowsUpTo(more, statuses, t) = RowsUpTo(lg, statuses, t)
  BY DEF Grows, RowsUpTo
<1> DEFINE shown == H!Newest(RowsUpTo(lg, H!Emails, t), LogLimit)
<1>2. shown \subseteq 1 .. t
  BY DEF RowsUpTo, H!Newest
<1>3. \A k \in 1 .. t : more[k] = lg[k]
  BY DEF Grows
<1> HIDE DEF shown
<1>4. { k \in shown : more[k] = "failed" } = { k \in shown : lg[k] = "failed" }
  BY <1>2, <1>3
<1> QED
  BY <1>1, <1>4 DEF EmailsAt, FailedAt, shown

LEMMA SameReadings ==
    ASSUME NEW lg, NEW more, Grows(lg, more)
    PROVE  /\ \A d : ReadingOK(lg, d) => ReadingOK(more, d)
           /\ \A d : StatsOK(lg, d) => StatsOK(more, d)
           /\ \A c : HomeCallOK(lg, c) => HomeCallOK(more, c)
<1>1. \A d : Counted(lg, d) => /\ Counted(more, d)
                               /\ d.asOf \in 0 .. Len(lg)
                               /\ Since(lg, d) \subseteq Since(more, d)
                               /\ Since(lg, d) \subseteq 0 .. Len(lg)
  BY DEF Counted, Since, Grows
<1>2. \A d : Counted(lg, d) /\ Totalled(lg, d) => Totalled(more, d)
  BY <1>1, SameRows DEF Totalled
<1>3. ASSUME NEW d, Counted(lg, d), Split(lg, d) PROVE Split(more, d)
  BY <1>1, <1>3, SameRows DEF Split
<1>4. ASSUME NEW d, Counted(lg, d), Listed(lg, d) PROVE Listed(more, d)
  BY <1>1, <1>4, SameRows DEF Listed
<1>5. ASSUME NEW d, Counted(lg, d), Ran(lg, d) PROVE Ran(more, d)
  BY <1>1, <1>5, SameRows DEF Ran
<1>6. \A d : ReadingOK(lg, d) => ReadingOK(more, d)
  BY <1>1, <1>2, <1>3, <1>4 DEF ReadingOK
<1>7. \A d : StatsOK(lg, d) => StatsOK(more, d)
  BY <1>1, <1>3, <1>4, <1>5 DEF StatsOK
<1> QED
  BY <1>6, <1>7 DEF HomeCallOK

\* What the queries return is what can be seen of the whole log.
LEMMA Queries ==
    ASSUME log \in Seq(H!Statuses)
    PROVE  /\ H!CountByUserID = EmailsAt(log, Len(log))
           /\ H!failedCount = FailedAt(log, Len(log))
           /\ \A statuses, n : H!List(statuses, n)
                = H!Newest(RowsUpTo(log, statuses, Len(log)), n)
<1>1. \A statuses : H!Rows(statuses) = RowsUpTo(log, statuses, Len(log))
  BY DEF H!Rows, RowsUpTo
<1>2. \A statuses, n : H!List(statuses, n)
        = H!Newest(RowsUpTo(log, statuses, Len(log)), n)
  BY <1>1 DEF H!List
<1> QED
  BY <1>1, <1>2, HomeCardinality DEF H!CountByUserID, H!failedCount, EmailsAt, FailedAt

\* An answer changes the state of a call and its data.
LEMMA HomeAnswered ==
    ASSUME NEW c, NEW st, NEW d,
           c = [ kind |-> c.kind, arg |-> c.arg, st |-> c.st, data |-> c.data ]
    PROVE  [ c EXCEPT !.st = st, !.data = d ]
             = [ kind |-> c.kind, arg |-> c.arg, st |-> st, data |-> d ]
<1> DEFINE new == [ c EXCEPT !.st = st, !.data = d ]
<1>1. c \in [ kind : {c.kind}, arg : {c.arg}, st : {c.st}, data : {c.data} ]
  OBVIOUS
<1>2. new \in [ kind : {c.kind}, arg : {c.arg}, st : {st}, data : {d} ]
  BY <1>1
<1> HIDE DEF new
<1>3. new = [ kind |-> c.kind, arg |-> c.arg, st |-> st, data |-> d ]
  BY <1>2
<1> QED
  BY <1>3 DEF new

\* The table of one call.
LEMMA HomeOneCall ==
    ASSUME NEW lg, NEW calls,
           calls = H!call(H!NoCalls, "dashboard.stats", Nil)
    PROVE  /\ calls = [ i \in H!Slots |-> calls[i] ]
           /\ \A i \in H!Slots : HomeCallOK(lg, calls[i]) /\ calls[i].data = Nil
           /\ \A i, k \in H!Slots : calls[i].st # "idle" /\ calls[k].st # "idle" => i = k
<1> DEFINE n == CHOOSE k \in H!Slots : H!NoCalls[k].st = "idle"
           c == [ kind |-> "dashboard.stats", arg |-> Nil, st |-> "sent", data |-> Nil ]
<1>1. calls = [ H!NoCalls EXCEPT ![n] = c ]
  BY DEF H!call
<1>2. HomeCallOK(lg, c) /\ c.data = Nil /\ HomeCallOK(lg, H!IdleCall)
        /\ H!IdleCall.data = Nil /\ H!IdleCall.st = "idle"
  BY DEF HomeCallOK, H!IdleCall
<1> HIDE DEF n, c
<1> QED
  BY <1>1, <1>2 DEF H!NoCalls

LEMMA HomeNoCall ==
    \A lg : /\ H!NoCalls = [ i \in H!Slots |-> H!NoCalls[i] ]
            /\ \A i \in H!Slots : /\ HomeCallOK(lg, H!NoCalls[i])
                                  /\ H!NoCalls[i].data = Nil
                                  /\ H!NoCalls[i].st = "idle"
BY DEF H!NoCalls, H!IdleCall, HomeCallOK

\* What a step does that changes one call and not the page.
LEMMA HomeOneSlot ==
    ASSUME HomeInv, UNCHANGED <<log, homeUi>>, NEW n \in H!Slots, NEW c,
           homeCalls[n].st # "idle", HomeCallOK(log, c),
           c.data # Nil /\ homeUi.stats # Nil => c.data.asOf >= homeUi.stats.asOf,
           homeCalls' = [ homeCalls EXCEPT ![n] = c ]
    PROVE  HomeInv'
<1>1. /\ homeCalls'[n] = c
      /\ \A k \in H!Slots \ {n} : homeCalls'[k] = homeCalls[k]
      /\ homeCalls' = [ i \in H!Slots |-> homeCalls'[i] ]
  BY DEF HomeInv, HomeTypes
<1>2. HomeTypes'
  BY <1>1 DEF HomeInv, HomeTypes
<1>3. OneReading'
  BY <1>1 DEF HomeInv, OneReading
<1>4. NoOlderReading'
  BY <1>1 DEF HomeInv, NoOlderReading
<1> QED
  BY <1>2, <1>3, <1>4 DEF HomeInv

\* The page is opened, left, or rendered anew: at most one reading, not begun.
LEMMA HomeAnew ==
    ASSUME log' \in Seq(H!Statuses),
           homeUi' = [ open |-> homeUi'.open, stats |-> homeUi'.stats,
                       error |-> homeUi'.error, dirty |-> homeUi'.dirty ],
           homeUi'.stats # Nil => StatsOK(log', homeUi'.stats),
           \/ homeCalls' = H!NoCalls
           \/ homeCalls' = H!call(H!NoCalls, "dashboard.stats", Nil)
    PROVE  HomeInv'
<1>1. /\ homeCalls' = [ i \in H!Slots |-> homeCalls'[i] ]
      /\ \A i \in H!Slots : HomeCallOK(log', homeCalls'[i]) /\ homeCalls'[i].data = Nil
      /\ \A i, k \in H!Slots : homeCalls'[i].st # "idle" /\ homeCalls'[k].st # "idle" => i = k
  <2>1. CASE homeCalls' = H!NoCalls
    BY <2>1, HomeNoCall
  <2>2. CASE homeCalls' = H!call(H!NoCalls, "dashboard.stats", Nil)
    BY <2>2, HomeOneCall, Zenon
  <2> QED BY <2>1, <2>2
<1> QED
  BY <1>1 DEF HomeInv, HomeTypes, OneReading, NoOlderReading

LEMMA HomeInit == Init => HomeInv
<1> SUFFICES ASSUME Init PROVE HomeInv
  OBVIOUS
<1>1. log = <<>> /\ homeUi = H!Closed /\ homeCalls = H!NoCalls
  BY DEF Init, NoCalls, H!NoCalls, Slots, H!Slots, IdleCall, H!IdleCall
<1>2. log \in Seq(H!Statuses)
  BY <1>1
<1>3. /\ homeUi = [ open |-> homeUi.open, stats |-> homeUi.stats,
                    error |-> homeUi.error, dirty |-> homeUi.dirty ]
      /\ homeUi.stats = Nil
  BY <1>1 DEF H!Closed, H!Fresh
<1>4. HomeTypes /\ OneReading /\ NoOlderReading
  BY <1>1, <1>2, <1>3, HomeNoCall DEF HomeTypes, OneReading, NoOlderReading
<1> QED
  BY <1>4 DEF HomeInv

LEMMA HomeOpenLeave ==
    ASSUME HomeInv, H!OpenPage \/ H!LeavePage
    PROVE  HomeInv' /\ homeUi'.stats = Nil
<1>1. log' \in Seq(H!Statuses)
  <2>1. CASE H!OpenPage
    <3>1. PICK n \in 0 .. MaxLog : log' \in [ 1 .. n -> H!Statuses ]
      BY <2>1 DEF H!OpenPage
    <3> QED BY <3>1
  <2>2. CASE H!LeavePage
    BY <2>2 DEF H!LeavePage
  <2> QED BY <2>1, <2>2
<1>2. /\ homeUi' = [ open |-> homeUi'.open, stats |-> homeUi'.stats,
                     error |-> homeUi'.error, dirty |-> homeUi'.dirty ]
      /\ homeUi'.stats = Nil
  BY DEF H!OpenPage, H!LeavePage, H!Closed, H!Fresh
<1>3. \/ homeCalls' = H!NoCalls
      \/ homeCalls' = H!call(H!NoCalls, "dashboard.stats", Nil)
  BY DEF H!OpenPage, H!LeavePage
<1> QED
  BY <1>1, <1>2, <1>3, HomeAnew

LEMMA HomeRendered ==
    ASSUME HomeInv, H!ContextChanges \/ H!Render
    PROVE  HomeInv' /\ homeUi'.stats = homeUi.stats
<1>1. /\ log' = log
      /\ homeUi' = [ open |-> homeUi'.open, stats |-> homeUi'.stats,
                     error |-> homeUi'.error, dirty |-> homeUi'.dirty ]
      /\ homeUi'.stats = homeUi.stats
  BY DEF HomeInv, HomeTypes, H!ContextChanges, H!Render, H!server
<1>2. CASE H!Render
  BY <1>1, <1>2, HomeAnew DEF H!Render, HomeInv, HomeTypes
<1>3. CASE H!ContextChanges
  BY <1>1, <1>3 DEF H!ContextChanges, HomeInv, HomeTypes, OneReading, NoOlderReading
<1> QED
  BY <1>1, <1>2, <1>3

LEMMA HomeLogged ==
    ASSUME HomeInv, NEW status \in H!Statuses, H!Logged(status)
    PROVE  HomeInv' /\ homeUi' = homeUi
<1>1. log' = Append(log, status) /\ UNCHANGED <<homeUi, homeCalls>>
  BY DEF H!Logged
<1>2. log \in Seq(H!Statuses)
  BY DEF HomeInv, HomeTypes
<1>3. log' \in Seq(H!Statuses) /\ Grows(log, log')
  BY <1>1, <1>2 DEF Grows
<1>4. HomeTypes'
  BY <1>1, <1>3, SameReadings DEF HomeInv, HomeTypes
<1> QED
  BY <1>1, <1>4 DEF HomeInv, OneReading, NoOlderReading

\* Each query fills in its part, with what it saw of the whole log.
LEMMA HomeQuery ==
    ASSUME HomeInv, NEW n \in H!Slots,
           \/ H!CountEmails(n) \/ H!ListFailures(n) \/ H!ServeStats(n)
           \/ \E keys \in 0 .. MaxKeys : H!ReadTables(n, keys)
    PROVE  HomeInv' /\ homeUi' = homeUi
<1>t. /\ HomeTypes /\ HomeCallOK(log, homeCalls[n])
      /\ Len(log) \in Nat /\ log \in Seq(H!Statuses)
  BY DEF HomeInv, HomeTypes
<1>1. homeCalls[n].st = "sent" /\ UNCHANGED <<log, homeUi>>
  BY DEF H!CountEmails, H!ListFailures, H!ReadTables, H!ServeStats, H!Reading, H!server
<1>c. homeCalls[n].data # Nil => ReadingOK(log, homeCalls[n].data)
  BY <1>t, <1>1 DEF HomeCallOK
<1>a. /\ homeUi.stats # Nil => homeUi.stats.asOf \in 0 .. Len(log)
      /\ homeCalls[n].data # Nil => homeCalls[n].data.asOf \in 0 .. Len(log)
      /\ homeCalls[n].data # Nil /\ homeUi.stats # Nil
           => homeCalls[n].data.asOf >= homeUi.stats.asOf
  BY <1>t, <1>c DEF HomeInv, HomeTypes, StatsOK, ReadingOK, Counted, NoOlderReading
<1>s. ASSUME NEW st \in { "sent", "done" }, NEW d,
             homeCalls' = [ homeCalls EXCEPT ![n].st = st, ![n].data = d ],
             st = "sent" => ReadingOK(log, d), st = "done" => StatsOK(log, d),
             homeUi.stats # Nil => d.asOf >= homeUi.stats.asOf
      PROVE  HomeInv'
  <2> DEFINE c == [ kind |-> homeCalls[n].kind, arg |-> homeCalls[n].arg,
                    st |-> st, data |-> d ]
  <2>0. [ homeCalls[n] EXCEPT !.st = st, !.data = d ] = c
    BY <1>t, HomeAnswered DEF HomeCallOK
  <2>1. homeCalls' = [ homeCalls EXCEPT ![n] = c ]
    BY <1>s, <2>0
  <2>2. /\ c = [ kind |-> c.kind, arg |-> c.arg, st |-> c.st, data |-> c.data ]
        /\ c.st = st /\ c.data = d
    OBVIOUS
  <2> HIDE DEF c
  <2>3. HomeCallOK(log, c)
    BY <1>s, <2>2 DEF HomeCallOK
  <2> QED BY <1>1, <1>s, <2>1, <2>2, <2>3, HomeOneSlot
<1>k. \A d : homeCalls' = [ homeCalls EXCEPT ![n].data = d ]
              => homeCalls' = [ homeCalls EXCEPT ![n].st = "sent", ![n].data = d ]
  BY <1>t, <1>1 DEF HomeTypes, HomeCallOK
<1>2. CASE H!CountEmails(n)
  <2> DEFINE d == [ step |-> 1, asOf |-> Len(log), total |-> H!CountByUserID ]
  <2>1. homeCalls' = [ homeCalls EXCEPT ![n].data = d ]
    BY <1>2 DEF H!CountEmails
  <2>2. ReadingOK(log, d) /\ d.asOf = Len(log)
    BY <1>t, Queries DEF ReadingOK, Counted, Totalled
  <2> HIDE DEF d
  <2>3. homeUi.stats # Nil => d.asOf >= homeUi.stats.asOf
    BY <1>t, <1>a, <2>2
  <2>4. homeCalls' = [ homeCalls EXCEPT ![n].st = "sent", ![n].data = d ]
    BY <1>k, <2>1
  <2> QED BY <1>1, <1>s, <2>2, <2>3, <2>4
<1>3. CASE H!ListFailures(n)
  <2> DEFINE old == homeCalls[n].data
             d == [ step |-> 2, asOf |-> old.asOf,
                    total_emails_sent   |-> old.total - H!failedCount,
                    total_emails_failed |-> H!failedCount ]
  <2>0. old # Nil /\ old.step = 1
    BY <1>3 DEF H!ListFailures, H!Reading
  <2>1. homeCalls' = [ homeCalls EXCEPT ![n].data = d ]
    BY <1>3 DEF H!ListFailures
  <2>2. old.asOf \in 0 .. Len(log) /\ old.total = EmailsAt(log, old.asOf)
    BY <1>c, <2>0 DEF ReadingOK, Counted, Totalled
  <2>3. Split(log, d)
    BY <1>t, <2>2, Queries DEF Split, Since
  <2>4. ReadingOK(log, d) /\ d.asOf = old.asOf
    BY <2>2, <2>3 DEF ReadingOK, Counted
  <2> HIDE DEF d
  <2> QED BY <1>1, <1>a, <1>s, <1>k, <2>0, <2>1, <2>4
<1>4. ASSUME NEW keys, H!ReadTables(n, keys) PROVE HomeInv'
  <2> DEFINE old == homeCalls[n].data
             d == [ step |-> 3, asOf |-> old.asOf,
                    total_emails_sent   |-> old.total_emails_sent,
                    total_emails_failed |-> old.total_emails_failed,
                    total_api_keys      |-> keys,
                    has_smtp_config     |-> smtp # "none",
                    recent_email_logs   |-> H!List(H!Emails, Recent),
                    recent_job_executions |-> {} ]
  <2>0. old # Nil /\ old.step = 2
    BY <1>4 DEF H!ReadTables, H!Reading
  <2>1. homeCalls' = [ homeCalls EXCEPT ![n].data = d ]
    BY <1>4 DEF H!ReadTables
  <2>2. old.asOf \in 0 .. Len(log) /\ Split(log, old)
    BY <1>c, <2>0 DEF ReadingOK, Counted
  <2>3. Split(log, d)
    BY <2>2 DEF Split, Since
  <2>4. Listed(log, d)
    BY <1>t, <2>2, Queries DEF Listed, Since
  <2>5. ReadingOK(log, d) /\ d.asOf = old.asOf
    BY <2>2, <2>3, <2>4 DEF ReadingOK, Counted, StatsRecord
  <2> HIDE DEF d
  <2> QED BY <1>1, <1>a, <1>s, <1>k, <2>0, <2>1, <2>5
<1>5. CASE H!ServeStats(n)
  <2> DEFINE old == homeCalls[n].data
             d == [ old EXCEPT !.recent_job_executions = H!List({ "run" }, Recent) ]
  <2>0. old # Nil /\ old.step = 3
    BY <1>5 DEF H!ServeStats, H!Reading
  <2>1. homeCalls' = [ homeCalls EXCEPT ![n].st = "done", ![n].data = d ]
    BY <1>5 DEF H!ServeStats, H!Resolve
  <2>2. /\ StatsRecord(old) /\ old.asOf \in 0 .. Len(log)
        /\ Split(log, old) /\ Listed(log, old)
    BY <1>c, <2>0 DEF ReadingOK, Counted
  <2>3. /\ StatsRecord(d) /\ d.asOf = old.asOf
        /\ d.total_emails_sent = old.total_emails_sent
        /\ d.total_emails_failed = old.total_emails_failed
        /\ d.recent_email_logs = old.recent_email_logs
        /\ d.recent_job_executions = H!List({ "run" }, Recent)
    BY <2>2 DEF StatsRecord
  <2> HIDE DEF d
  <2>4. Split(log, d) /\ Listed(log, d)
    BY <2>2, <2>3 DEF Split, Listed, Since
  <2>5. Ran(log, d)
    BY <1>t, <2>2, <2>3, Queries DEF Ran, Since
  <2>6. StatsOK(log, d)
    BY <2>2, <2>3, <2>4, <2>5 DEF StatsOK, Counted
  <2> QED BY <1>1, <1>a, <1>s, <2>0, <2>1, <2>3, <2>6
<1> QED
  BY <1>1, <1>2, <1>3, <1>4, <1>5

LEMMA HomeFail ==
    ASSUME HomeInv, NEW n \in H!Slots, H!Fail(n)
    PROVE  HomeInv' /\ homeUi' = homeUi
<1> DEFINE c == [ kind |-> homeCalls[n].kind, arg |-> homeCalls[n].arg,
                  st |-> "failed", data |-> Nil ]
<1>0. [ homeCalls[n] EXCEPT !.st = "failed", !.data = Nil ] = c
  <2>1. HomeCallOK(log, homeCalls[n])
    BY DEF HomeInv, HomeTypes
  <2> QED BY <2>1, HomeAnswered DEF HomeCallOK
<1>1. /\ homeCalls' = [ homeCalls EXCEPT ![n] = c ]
      /\ homeCalls[n].st # "idle" /\ UNCHANGED <<log, homeUi>>
  BY <1>0 DEF H!Fail, H!Throw, H!server
<1>2. /\ c = [ kind |-> c.kind, arg |-> c.arg, st |-> c.st, data |-> c.data ]
      /\ c.st = "failed" /\ c.data = Nil
  OBVIOUS
<1> HIDE DEF c
<1>3. HomeCallOK(log, c)
  BY <1>2 DEF HomeCallOK
<1> QED
  BY <1>1, <1>2, <1>3, HomeOneSlot

\* The answer arrives: no other is on its way.
LEMMA HomeTake ==
    ASSUME HomeInv, NEW n \in H!Slots, H!TakeStats(n)
    PROVE  /\ HomeInv'
           /\ \/ homeUi'.stats = homeUi.stats
              \/ homeUi'.stats = homeCalls[n].data
<1>1. log' = log /\ homeCalls[n].st \in { "done", "failed" }
  BY DEF H!TakeStats, H!server
<1>2. homeCalls' = [ homeCalls EXCEPT ![n] = H!IdleCall ]
  BY DEF H!TakeStats, H!Settle
<1>3. HomeCallOK(log, H!IdleCall) /\ H!IdleCall.st = "idle"
  BY DEF HomeCallOK, H!IdleCall
<1>4. /\ homeCalls' = [ i \in H!Slots |-> homeCalls'[i] ]
      /\ homeCalls'[n] = H!IdleCall
      /\ \A i \in H!Slots \ {n} : homeCalls'[i] = homeCalls[i]
  BY <1>2 DEF HomeInv, HomeTypes
<1>5. \A i \in H!Slots : /\ homeCalls'[i].st = "idle"
                         /\ HomeCallOK(log, homeCalls'[i])
                         /\ homeCalls'[i].data = Nil
  BY <1>1, <1>3, <1>4 DEF HomeInv, HomeTypes, OneReading, HomeCallOK
<1>6. /\ homeUi' = [ open |-> homeUi'.open, stats |-> homeUi'.stats,
                     error |-> homeUi'.error, dirty |-> homeUi'.dirty ]
      /\ homeUi'.stats # Nil => StatsOK(log, homeUi'.stats)
      /\ homeUi'.stats = homeUi.stats \/ homeUi'.stats = homeCalls[n].data
  <2>1. CASE homeCalls[n].st = "done"
    <3>1. homeUi' = [ homeUi EXCEPT !.stats = homeCalls[n].data, !.dirty = TRUE ]
      BY <2>1 DEF H!TakeStats
    <3> QED BY <2>1, <3>1 DEF HomeInv, HomeTypes, HomeCallOK
  <2>2. CASE homeCalls[n].st # "done"
    <3>1. PICK e \in Errors : homeUi' = [ homeUi EXCEPT !.error = e,
                                            !.dirty = @ \/ homeUi.error # e ]
      BY <2>2 DEF H!TakeStats
    <3> DEFINE dirt == homeUi.dirty \/ homeUi.error # e
    <3>2. homeUi' = [ homeUi EXCEPT !.error = e, !.dirty = dirt ]
      BY <3>1
    <3> HIDE DEF dirt
    <3> QED BY <3>2 DEF HomeInv, HomeTypes
  <2> QED BY <2>1, <2>2
<1>7. HomeTypes'
  BY <1>1, <1>4, <1>5, <1>6 DEF HomeInv, HomeTypes
<1> QED
  BY <1>5, <1>6, <1>7 DEF HomeInv, OneReading, NoOlderReading

\* What can become of the statistics the page shows: they stay, they go with the
\* page, or a reading that is done replaces them.
Replaced ==
    \/ homeUi'.stats = Nil
    \/ homeUi'.stats = homeUi.stats
    \/ \E n \in H!Slots : homeCalls[n].st = "done" /\ log' = log
                            /\ homeUi'.stats = homeCalls[n].data

LEMMA HomeInductive == HomeInv /\ [Next]_vars => HomeInv' /\ Replaced
<1> SUFFICES ASSUME HomeInv, [Next]_vars PROVE HomeInv' /\ Replaced
  OBVIOUS
<1>1. CASE UNCHANGED <<log, homePage>>
  BY <1>1 DEF homePage, HomeInv, HomeTypes, OneReading, NoOlderReading, Replaced
<1>2. CASE H!OpenPage \/ H!LeavePage
  BY <1>2, HomeOpenLeave DEF Replaced
<1>3. CASE H!OnPage
  <2>1. ASSUME NEW n \in H!Slots, H!TakeStats(n) PROVE HomeInv' /\ Replaced
    <3>1. log' = log /\ homeCalls[n].st \in { "done", "failed" }
      BY <2>1 DEF H!TakeStats, H!server
    <3>2. homeCalls[n].st = "failed" => homeCalls[n].data = Nil
      BY DEF HomeInv, HomeTypes, HomeCallOK
    <3> QED BY <2>1, <3>1, <3>2, HomeTake DEF Replaced
  <2>2. ASSUME NEW n \in H!Slots, H!Fail(n) PROVE HomeInv' /\ Replaced
    BY <2>2, HomeFail DEF Replaced
  <2>3. ASSUME NEW n \in H!Slots,
               \/ H!CountEmails(n) \/ H!ListFailures(n) \/ H!ServeStats(n)
               \/ \E keys \in 0 .. MaxKeys : H!ReadTables(n, keys)
        PROVE HomeInv' /\ Replaced
    BY <2>3, HomeQuery DEF Replaced
  <2>4. ASSUME NEW status \in H!Statuses, H!Logged(status) PROVE HomeInv' /\ Replaced
    BY <2>4, HomeLogged DEF Replaced
  <2>5. ASSUME H!ContextChanges \/ H!Render PROVE HomeInv' /\ Replaced
    BY <2>5, HomeRendered DEF Replaced
  <2> QED BY <1>3, <2>1, <2>2, <2>3, <2>4, <2>5 DEF H!OnPage
<1> QED
  BY <1>1, <1>2, <1>3 DEF Next, Navigate, SmtpStep, HomeStep, SendStep, Elsewhere,
                          vars, rows

LEMMA HomeInvariance == Spec => []HomeInv
BY HomeInit, HomeInductive, PTL DEF Spec

\* Of a log: what was counted, and how it splits.
LEMMA CountsOfLog ==
    ASSUME NEW lg \in Seq(H!Statuses), NEW t \in 0 .. Len(lg)
    PROVE  /\ EmailsAt(lg, t) \in Nat /\ FailedAt(lg, t) \in Nat
           /\ \A u \in 0 .. t : EmailsAt(lg, u) <= EmailsAt(lg, t)
<1>1. \A u \in 0 .. t : RowsUpTo(lg, H!Emails, u) \subseteq RowsUpTo(lg, H!Emails, t)
  BY DEF RowsUpTo
<1>2. RowsUpTo(lg, H!Emails, t) \subseteq 1 .. t
  BY DEF RowsUpTo
<1>3. IsFiniteSet(RowsUpTo(lg, H!Emails, t)) /\ EmailsAt(lg, t) \in Nat
  BY <1>2, Places DEF EmailsAt
<1> DEFINE f == { k \in H!Newest(RowsUpTo(lg, H!Emails, t), LogLimit) : lg[k] = "failed" }
<1>4. f \subseteq 1 .. t
  BY <1>2 DEF H!Newest
<1> HIDE DEF f
<1>t. t \in Nat
  OBVIOUS
<1>5. Cardinality(f) \in Nat
  BY <1>4, <1>t, Places
<1>6. \A u \in 0 .. t : EmailsAt(lg, u) <= EmailsAt(lg, t)
  BY <1>1, <1>3, FS_Subset DEF EmailsAt
<1> QED
  BY <1>3, <1>5, <1>6 DEF FailedAt, f

\* What the tiles add up to is the number of e-mails the reading counted.
LEMMA TilesAddUp ==
    ASSUME log \in Seq(H!Statuses), NEW d, StatsOK(log, d)
    PROVE  /\ d.asOf \in 0 .. Len(log)
           /\ d.total_emails_sent \in Int /\ d.total_emails_failed \in Nat
           /\ d.total_emails_sent + d.total_emails_failed = EmailsAt(log, d.asOf)
<1>1. d.asOf \in 0 .. Len(log)
  BY DEF StatsOK, Counted
<1>2. PICK t \in Since(log, d) :
        /\ d.total_emails_failed = FailedAt(log, t)
        /\ d.total_emails_sent = EmailsAt(log, d.asOf) - FailedAt(log, t)
  BY DEF StatsOK, Split
<1>3. t \in 0 .. Len(log)
  BY <1>1 DEF Since
<1>4. EmailsAt(log, d.asOf) \in Nat /\ FailedAt(log, t) \in Nat
  BY <1>1, <1>3, CountsOfLog
<1> QED
  BY <1>1, <1>2, <1>4

\* However often the page renders and however its readings are answered, what
\* the tiles count can only become more: page.tsx:31 cancels the reading before.
THEOREM StatsOnlyGrow == Spec => StatsNeverGoBack
<1> DEFINE A == (homeUi.stats # Nil /\ homeUi'.stats # Nil)
                  => H!metrics'.sent + homeUi'.stats.total_emails_failed
                       >= H!metrics.sent + homeUi.stats.total_emails_failed
<1>1. HomeInv /\ HomeInv' /\ Replaced => A
  <2> SUFFICES ASSUME HomeInv, HomeInv', Replaced,
                      homeUi.stats # Nil, homeUi'.stats # Nil
               PROVE  H!metrics'.sent + homeUi'.stats.total_emails_failed
                        >= H!metrics.sent + homeUi.stats.total_emails_failed
    OBVIOUS
  <2>1. /\ H!metrics.sent = homeUi.stats.total_emails_sent
        /\ H!metrics'.sent = homeUi'.stats.total_emails_sent
    BY DEF H!metrics
  <2>2. log \in Seq(H!Statuses) /\ StatsOK(log, homeUi.stats)
    BY DEF HomeInv, HomeTypes
  <2>3. /\ homeUi.stats.asOf \in 0 .. Len(log)
        /\ homeUi.stats.total_emails_sent \in Int /\ homeUi.stats.total_emails_failed \in Nat
        /\ homeUi.stats.total_emails_sent + homeUi.stats.total_emails_failed
             = EmailsAt(log, homeUi.stats.asOf)
    BY <2>2, TilesAddUp
  <2>4. CASE homeUi'.stats = homeUi.stats
    BY <2>1, <2>3, <2>4
  <2>5. ASSUME NEW n \in H!Slots, homeCalls[n].st = "done", log' = log,
               homeUi'.stats = homeCalls[n].data
        PROVE  H!metrics'.sent + homeUi'.stats.total_emails_failed
                 >= H!metrics.sent + homeUi.stats.total_emails_failed
    <3> DEFINE d == homeCalls[n].data
    <3>1. d # Nil /\ StatsOK(log, d)
      BY <2>5 DEF HomeInv, HomeTypes, HomeCallOK
    <3>2. d.asOf >= homeUi.stats.asOf
      BY <3>1 DEF HomeInv, NoOlderReading
    <3> HIDE DEF d
    <3>3. /\ d.asOf \in 0 .. Len(log)
          /\ d.total_emails_sent \in Int /\ d.total_emails_failed \in Nat
          /\ d.total_emails_sent + d.total_emails_failed = EmailsAt(log, d.asOf)
      BY <2>2, <3>1, TilesAddUp
    <3>4. EmailsAt(log, homeUi.stats.asOf) <= EmailsAt(log, d.asOf)
      BY <2>2, <2>3, <3>2, <3>3, CountsOfLog
    <3>5. /\ EmailsAt(log, homeUi.stats.asOf) \in Nat /\ EmailsAt(log, d.asOf) \in Nat
      BY <2>2, <2>3, <3>3, CountsOfLog
    <3>6. homeUi'.stats = d
      BY <2>5 DEF d
    <3> QED BY <2>1, <2>3, <3>3, <3>4, <3>5, <3>6
  <2> QED BY <2>4, <2>5 DEF Replaced
<1>2. HomeInv /\ [Next]_vars => HomeInv' /\ [A]_(H!vars)
  BY <1>1, HomeInductive
<1> HIDE DEF A
<1>3. Spec => [][A]_(H!vars)
  BY <1>2, HomeInit, PTL DEF Spec
<1> QED
  BY <1>3 DEF StatsNeverGoBack, H!StatsNeverGoBack, A

\* The rows of one status, up to a place and between two places.
Kind(lg, status, a, b) == { k \in a .. b : lg[k] = status }

LEMMA KindFinite ==
    ASSUME NEW lg, NEW status, NEW a \in Nat \ {0}, NEW b \in Nat
    PROVE  /\ IsFiniteSet(Kind(lg, status, a, b))
           /\ Cardinality(Kind(lg, status, a, b)) \in Nat
<1>1. Kind(lg, status, a, b) \subseteq 1 .. b
  BY DEF Kind
<1> QED
  BY <1>1, Places

\* Cut in two, and one inside the other.
LEMMA KindSplit ==
    ASSUME NEW lg, NEW status, NEW a \in Nat, NEW b \in Nat, a <= b
    PROVE  Cardinality(Kind(lg, status, 1, b))
             = Cardinality(Kind(lg, status, 1, a)) + Cardinality(Kind(lg, status, a + 1, b))
<1> DEFINE low == Kind(lg, status, 1, a)
           high == Kind(lg, status, a + 1, b)
<1>1. Kind(lg, status, 1, b) = low \cup high /\ low \cap high = {}
  BY DEF Kind
<1>2. /\ IsFiniteSet(low) /\ Cardinality(low) \in Nat
      /\ IsFiniteSet(high) /\ Cardinality(high) \in Nat
  <2>1. a + 1 \in Nat \ {0} /\ 1 \in Nat \ {0}
    OBVIOUS
  <2> QED BY <2>1, KindFinite
<1> HIDE DEF low, high
<1>3. Cardinality(low \cup high)
        = Cardinality(low) + Cardinality(high) - Cardinality(low \cap high)
  BY <1>2, FS_Union
<1>4. Cardinality(low \cap high) = 0
  BY <1>1, FS_EmptySet
<1>5. Cardinality(low \cup high) = Cardinality(low) + Cardinality(high)
  BY <1>2, <1>3, <1>4
<1>6. Cardinality(Kind(lg, status, 1, b)) = Cardinality(low) + Cardinality(high)
  BY <1>1, <1>5
<1> QED
  BY <1>6 DEF low, high

LEMMA KindMore ==
    ASSUME NEW lg, NEW status, NEW a \in Nat \ {0}, NEW b \in Nat, NEW c \in Nat, b <= c
    PROVE  Cardinality(Kind(lg, status, a, b)) <= Cardinality(Kind(lg, status, a, c))
<1>1. Kind(lg, status, a, b) \subseteq Kind(lg, status, a, c)
  BY DEF Kind
<1> QED
  BY <1>1, KindFinite, FS_Subset

\* The e-mails are those that went out and those that failed.
LEMMA EmailsSplit ==
    ASSUME NEW lg, NEW t \in Nat
    PROVE  EmailsAt(lg, t) = Cardinality(Kind(lg, "sent", 1, t))
                             + Cardinality(Kind(lg, "failed", 1, t))
<1> DEFINE sent == Kind(lg, "sent", 1, t)
           failed == Kind(lg, "failed", 1, t)
<1>1. RowsUpTo(lg, H!Emails, t) = sent \cup failed /\ sent \cap failed = {}
  BY DEF RowsUpTo, H!Emails, Kind
<1>2. /\ IsFiniteSet(sent) /\ Cardinality(sent) \in Nat
      /\ IsFiniteSet(failed) /\ Cardinality(failed) \in Nat
  <2>1. 1 \in Nat \ {0}
    OBVIOUS
  <2> QED BY <2>1, KindFinite
<1> HIDE DEF sent, failed
<1>3. Cardinality(sent \cup failed)
        = Cardinality(sent) + Cardinality(failed) - Cardinality(sent \cap failed)
  BY <1>2, FS_Union
<1>4. Cardinality(sent \cap failed) = 0
  BY <1>1, FS_EmptySet
<1> QED
  BY <1>1, <1>2, <1>3, <1>4 DEF EmailsAt, sent, failed

\* With no more e-mails than LogLimit every failure is seen.
LEMMA EveryFailureSeen ==
    ASSUME NEW lg \in Seq(H!Statuses), NEW t \in 0 .. Len(lg),
           EmailsAt(lg, Len(lg)) <= LogLimit
    PROVE  FailedAt(lg, t) = Cardinality(Kind(lg, "failed", 1, t))
<1>1. EmailsAt(lg, t) \in Nat /\ EmailsAt(lg, Len(lg)) \in Nat
        /\ EmailsAt(lg, t) <= EmailsAt(lg, Len(lg))
  BY CountsOfLog
<1>2. Cardinality(RowsUpTo(lg, H!Emails, t)) <= LogLimit
  BY <1>1, LimitsAssumption DEF EmailsAt
<1>3. RowsUpTo(lg, H!Emails, t) \subseteq 1 .. t
  BY DEF RowsUpTo
<1>4. t \in Nat
  OBVIOUS
<1>5. H!Newest(RowsUpTo(lg, H!Emails, t), LogLimit) = RowsUpTo(lg, H!Emails, t)
  BY <1>2, <1>3, <1>4, LimitsAssumption, NewestRows
<1>6. { k \in RowsUpTo(lg, H!Emails, t) : lg[k] = "failed" } = Kind(lg, "failed", 1, t)
  BY DEF RowsUpTo, H!Emails, Kind
<1> QED
  BY <1>5, <1>6 DEF FailedAt

\* A part of a whole is at most 100 %.
LEMMA AtMostWhole ==
    ASSUME NEW part \in Int, NEW whole \in Nat, whole > 0, part <= whole
    PROVE  (part * 100) \div whole <= 100
<1> DEFINE q == (part * 100) \div whole
           r == (part * 100) % whole
<1>1. part * 100 = whole * q + r /\ q \in Int /\ r \in 0 .. whole - 1
  OBVIOUS
<1> HIDE DEF q, r
<1>2. whole * q <= whole * 100
  BY <1>1
<1>3. ASSUME q >= 101 PROVE FALSE
  <2>1. whole * q >= whole * 101
    BY <1>1, <1>3
  <2> QED BY <1>1, <1>2, <2>1
<1>4. q <= 100
  BY <1>1, <1>3
<1> QED
  BY <1>4 DEF q

\* "Emails Sent", the rate and the checklist: the count is of the moment the
\* reading began, the failures are of a later one (dashboard.go:49, 76), so that
\* the difference errs downwards, and by no more than the failures in between.
THEOREM SentAddsUp == Spec => []SentIsAccountedFor
<1>1. HomeInv => SentIsAccountedFor
  <2> DEFINE d == homeUi.stats
             sent == Cardinality(Kind(log, "sent", 1, d.asOf))
             since == Cardinality(Kind(log, "failed", d.asOf + 1, Len(log)))
  <2> SUFFICES ASSUME HomeInv, H!Screen = "Overview", H!CountByUserID <= LogLimit
               PROVE  /\ H!metrics.sent <= sent
                      /\ H!metrics.sent >= sent - since
                      /\ H!metrics.rate <= 100
                      /\ ~H!setupIncomplete => sent > 0
    BY HomeCardinality DEF SentIsAccountedFor, H!SentIsAccountedFor, Kind
  <2>1. /\ d # Nil /\ StatsOK(log, d) /\ log \in Seq(H!Statuses)
        /\ EmailsAt(log, Len(log)) <= LogLimit
    BY Queries DEF HomeInv, HomeTypes, H!Screen
  <2>2. /\ d.asOf \in 0 .. Len(log) /\ Len(log) \in Nat /\ d.asOf \in Nat
        /\ d.total_emails_sent \in Int /\ d.total_emails_failed \in Nat
        /\ d.total_emails_sent + d.total_emails_failed = EmailsAt(log, d.asOf)
    BY <2>1, TilesAddUp
  <2>3. PICK t \in Since(log, d) : d.total_emails_failed = FailedAt(log, t)
    BY <2>1 DEF StatsOK, Split
  <2>4. t \in 0 .. Len(log) /\ t \in Nat /\ d.asOf <= t /\ t <= Len(log)
    BY <2>2, <2>3 DEF Since
  <2> DEFINE failed == Cardinality(Kind(log, "failed", 1, d.asOf))
             later == Cardinality(Kind(log, "failed", d.asOf + 1, t))
  <2>5. FailedAt(log, t) = failed + later
    BY <2>1, <2>2, <2>4, EveryFailureSeen, KindSplit
  <2>6. EmailsAt(log, d.asOf) = sent + failed
    BY <2>2, EmailsSplit
  <2>7. /\ sent \in Nat /\ failed \in Nat /\ later \in Nat /\ since \in Nat
        /\ later <= since
    <3>1. 1 \in Nat \ {0} /\ d.asOf + 1 \in Nat \ {0}
      BY <2>2
    <3> QED BY <2>2, <2>4, <3>1, KindFinite, KindMore
  <2>8. EmailsAt(log, d.asOf) \in Nat
    BY <2>1, <2>2, CountsOfLog
  <2>9. H!metrics.sent = d.total_emails_sent
    BY DEF H!metrics
  <2>10. H!metrics.rate <= 100
    <3> DEFINE total == d.total_emails_sent + d.total_emails_failed
    <3>1. total \in Nat /\ d.total_emails_sent <= total
      BY <2>2, <2>8
    <3>2. H!metrics.rate = IF total > 0 THEN (d.total_emails_sent * 100) \div total ELSE 100
      BY DEF H!metrics
    <3> HIDE DEF total
    <3>3. CASE total > 0
      BY <2>2, <3>1, <3>2, <3>3, AtMostWhole
    <3>4. CASE ~(total > 0)
      BY <3>2, <3>4
    <3> QED BY <3>3, <3>4
  <2>11. ASSUME ~H!setupIncomplete PROVE d.total_emails_sent > 0
    <3> DEFINE all == DOMAIN H!checklist
               ticked == { s \in all : H!checklist[s] }
    <3>1. all = { "smtp", "keys", "send" } /\ "send" \in all
      BY DEF H!checklist
    <3>2. IsFiniteSet(all)
      <4>1. IsFiniteSet({}) /\ IsFiniteSet({} \cup {"smtp"})
        BY FS_EmptySet, FS_AddElement
      <4>2. IsFiniteSet(({} \cup {"smtp"}) \cup {"keys"})
        BY <4>1, FS_AddElement
      <4>3. IsFiniteSet((({} \cup {"smtp"}) \cup {"keys"}) \cup {"send"})
        BY <4>2, FS_AddElement
      <4>4. all = (({} \cup {"smtp"}) \cup {"keys"}) \cup {"send"}
        BY <3>1
      <4> QED BY <4>3, <4>4
    <3>3. ~(Cardinality(ticked) < Cardinality(all))
      BY <2>11, HomeCardinality DEF H!setupIncomplete, H!StepsDone
    <3>4. ticked \subseteq all
      OBVIOUS
    <3>t. \A s \in ticked : H!checklist[s]
      OBVIOUS
    <3> HIDE DEF all, ticked
    <3>5. Cardinality(ticked) \in Nat /\ Cardinality(all) \in Nat
      BY <3>2, <3>4, FS_Subset, FS_CardinalityType
    <3>6. ticked = all
      BY <3>2, <3>3, <3>4, <3>5, FS_Subset
    <3>7. H!checklist["send"]
      BY <3>1, <3>6, <3>t
    <3> QED BY <3>7 DEF H!checklist
  <2> HIDE DEF d, sent, since, failed, later
  <2> QED
    BY <2>2, <2>3, <2>5, <2>6, <2>7, <2>9, <2>10, <2>11
<1> QED
  BY <1>1, HomeInvariance, PTL

\* What the stream shows is the two lists, whole: they are no longer than it is.
LEMMA StreamShowsBoth ==
    ASSUME NEW n \in Nat, NEW some, some \subseteq 1 .. n, NEW others, others \subseteq 1 .. n
    PROVE  LET both == H!Newest(some, Recent) \cup H!Newest(others, Recent)
           IN  H!Newest(both, 2 * Recent) = both
<1> DEFINE a == H!Newest(some, Recent)
           b == H!Newest(others, Recent)
<1>r. Recent \in Nat
  BY LimitsAssumption
<1>1. a \subseteq 1 .. n /\ b \subseteq 1 .. n
  BY DEF H!Newest
<1>2. Cardinality(a) <= Recent /\ Cardinality(b) <= Recent
  BY <1>r, NewestRows
<1> HIDE DEF a, b
<1>3. /\ IsFiniteSet(a) /\ Cardinality(a) \in Nat
      /\ IsFiniteSet(b) /\ Cardinality(b) \in Nat
      /\ a \cap b \subseteq 1 .. n
  BY <1>1, Places
<1>4. Cardinality(a \cup b) = Cardinality(a) + Cardinality(b) - Cardinality(a \cap b)
  BY <1>3, FS_Union
<1>5. Cardinality(a \cap b) \in Nat
  BY <1>3, Places
<1>6. Cardinality(a \cup b) <= 2 * Recent
  BY <1>r, <1>2, <1>3, <1>4, <1>5
<1>7. a \cup b \subseteq 1 .. n /\ 2 * Recent \in Nat
  BY <1>1, <1>r
<1>8. H!Newest(a \cup b, 2 * Recent) = a \cup b
  BY <1>6, <1>7, NewestRows
<1> QED
  BY <1>8 DEF a, b

\* The activity stream has every row that was there when the reading began, or
\* as many newer ones of its kind as there is room for: the two lists are read
\* at two times (dashboard.go:121, 140), and neither pushes out the other.
THEOREM StreamIsWhole == Spec => []StreamIsComplete
<1>1. HomeInv => StreamIsComplete
  <2> DEFINE d == homeUi.stats
  <2> SUFFICES ASSUME HomeInv, H!Screen = "Overview"
               PROVE  /\ H!Stream = "No activity recorded yet" => d.asOf = 0
                      /\ \A k \in 1 .. d.asOf :
                           \/ k \in H!activities
                           \/ Cardinality({ j \in H!activities :
                                j > k /\ (log[j] = "run") = (log[k] = "run") }) >= Recent
    BY HomeCardinality DEF StreamIsComplete, H!StreamIsComplete
  <2>1. d # Nil /\ StatsOK(log, d) /\ log \in Seq(H!Statuses)
    BY DEF HomeInv, HomeTypes, H!Screen
  <2>2. d.asOf \in 0 .. Len(log) /\ d.asOf \in Nat /\ Len(log) \in Nat
    BY <2>1 DEF StatsOK, Counted
  <2>3. PICK t \in Since(log, d) :
          d.recent_email_logs = H!Newest(RowsUpTo(log, H!Emails, t), Recent)
    BY <2>1 DEF StatsOK, Listed
  <2>4. PICK u \in Since(log, d) :
          d.recent_job_executions = H!Newest(RowsUpTo(log, { "run" }, u), Recent)
    BY <2>1 DEF StatsOK, Ran
  <2>5. /\ t \in Nat /\ d.asOf <= t /\ t <= Len(log)
        /\ u \in Nat /\ d.asOf <= u /\ u <= Len(log)
    BY <2>2 DEF Since
  <2> DEFINE emails == RowsUpTo(log, H!Emails, t)
             runs == RowsUpTo(log, { "run" }, u)
  <2>6. /\ emails \subseteq 1 .. t /\ runs \subseteq 1 .. u
        /\ emails \subseteq 1 .. Len(log) /\ runs \subseteq 1 .. Len(log)
    BY <2>2, <2>5 DEF RowsUpTo
  <2>7. \A k \in 1 .. d.asOf : IF log[k] = "run" THEN k \in runs ELSE k \in emails
    <3> SUFFICES ASSUME NEW k \in 1 .. d.asOf
                 PROVE  IF log[k] = "run" THEN k \in runs ELSE k \in emails
      OBVIOUS
    <3>1. k \in 1 .. t /\ k \in 1 .. u /\ k \in 1 .. Len(log)
      BY <2>2, <2>5
    <3>2. log[k] \in H!Statuses
      BY <2>1, <3>1
    <3> QED BY <3>1, <3>2 DEF RowsUpTo, H!Emails, H!Statuses
  <2>8. (\A k \in emails : log[k] # "run") /\ \A k \in runs : log[k] = "run"
    BY DEF RowsUpTo, H!Emails
  <2> DEFINE E == H!Newest(emails, Recent)
             R == H!Newest(runs, Recent)
  <2>9. H!activities = E \cup R
    BY <2>2, <2>3, <2>4, <2>6, StreamShowsBoth DEF H!activities
  <2> HIDE DEF emails, runs
  <2>r. Recent \in Nat /\ Recent > 0
    BY LimitsAssumption
  <2>10. /\ E \subseteq emails
         /\ emails # {} => E # {}
         /\ \A k \in emails \ E : Cardinality({ j \in E : j > k }) >= Recent
    BY <2>2, <2>6, <2>r, NewestRows
  <2>11. /\ R \subseteq runs
         /\ runs # {} => R # {}
         /\ \A k \in runs \ R : Cardinality({ j \in R : j > k }) >= Recent
    BY <2>2, <2>6, <2>r, NewestRows
  <2> HIDE DEF E, R, d
  <2>12. ASSUME H!Stream = "No activity recorded yet" PROVE d.asOf = 0
    <3>1. E = {} /\ R = {}
      BY <2>9, <2>12 DEF H!Stream
    <3>2. emails = {} /\ runs = {}
      BY <2>10, <2>11, <3>1
    <3>3. 1 \notin 1 .. d.asOf
      BY <2>7, <3>2
    <3> QED BY <2>2, <3>3
  <2>13. ASSUME NEW k \in 1 .. d.asOf, k \notin H!activities
         PROVE  Cardinality({ j \in H!activities :
                     j > k /\ (log[j] = "run") = (log[k] = "run") }) >= Recent
    <3>1. CASE log[k] = "run"
      <4>1. k \in runs \ R
        BY <2>7, <2>9, <2>13, <3>1
      <4>2. { j \in E \cup R : j > k /\ (log[j] = "run") = (log[k] = "run") }
              = { j \in R : j > k }
        BY <2>8, <2>10, <2>11, <3>1
      <4> QED BY <2>9, <2>11, <4>1, <4>2
    <3>2. CASE log[k] # "run"
      <4>1. k \in emails \ E
        BY <2>7, <2>9, <2>13, <3>2
      <4>2. { j \in E \cup R : j > k /\ (log[j] = "run") = (log[k] = "run") }
              = { j \in E : j > k }
        BY <2>8, <2>10, <2>11, <3>2
      <4> QED BY <2>9, <2>10, <4>1, <4>2
    <3> QED BY <3>1, <3>2
  <2> QED BY <2>12, <2>13 DEF d
<1> QED
  BY <1>1, HomeInvariance, PTL
=============================================================================
