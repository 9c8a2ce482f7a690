------------------------------ MODULE OtpProofs ------------------------------
(***************************************************************************)
(* Theorems about Otp, for every set of codes and requests, every TTL and  *)
(* limit, and every bound of the clock and of the retries.                 *)
(*                                                                         *)
(* IInv has one part for each of the three things that requests share.     *)
(* The key (KeyInv, ReadInv): every code that was ever stored or read is    *)
(* older than the next one, so a code that is gone does not come back,     *)
(* unless its SET is repeated (RepeatInv).                                 *)
(* The way of a code from the key to the mail (StoredInv).  The counter    *)
(* (ChargeInv, LimitInv): a request is charged once, and the counter is    *)
(* never behind the requests that it has let through.                      *)
(***************************************************************************)
EXTENDS Otp, FiniteSetTheorems, TLAPS

TypeOK ==
  /\ now \in Times
  /\ otp \in SUBSET Entry
  /\ count \in [Days -> Nat]
  /\ send \in [Sends -> SendRequest]
  /\ verify \in [Verifies -> VerifyRequest]
  /\ stores \in Nat

\* Redis keeps no value beyond its TTL, and ids are given out in order.
KeyInv == \A e \in otp : e.id < stores /\ now < e.storedAt + Ttl

\* A code that the client is going to SET again is read early only, until then:
\* while it is the key's, a reader can see that it will be.
RepeatInv ==
  /\ \A e, f \in otp : e = f
  /\ \A s \in Sends : \A x, y \in send[s].value : x = y
  /\ \A s, t \in Sends : \A x \in send[s].value, y \in send[t].value :
       x.id = y.id => s = t
  /\ \A s \in Sends : send[s].pc = "restore" => \A x \in send[s].value :
       /\ \A e \in otp : e.id = x.id => e = x
       /\ \A v \in Verifies : ~verify[v].early =>
            \A f \in verify[v].read : f.id # x.id

\* What a verification has read was the key's value, in its time; once there
\* is an answer nothing is read any more.
ReadInv ==
  \A v \in Verifies :
    /\ verify[v].answer # "none" => verify[v].pc = "done"
    /\ \A e \in verify[v].read :
         e.id < stores /\ verify[v].readAt < e.storedAt + Ttl

\* The code that s was given can be verified, or there is a reason why not.
Usable(s) ==
  \E e \in send[s].value :
    \/ e \in otp
    \/ now >= e.storedAt + Ttl
    \/ e.set + 1 < stores
    \/ e \in removed

\* No request gets past its store without a usable code.
StoredInv ==
  \A s \in Sends :
    /\ \A e \in send[s].value : e.id < stores /\ e.set < stores
    /\ send[s].pc \in {"idle", "store"} => send[s].value = {}
    /\ send[s].pc \in {"quota", "recharge", "mail", "log"} \/ send[s].mailed => Usable(s)

\* A request that can still be charged has not been, and one that was refused
\* is over.
ChargeInv ==
  \A s \in Sends :
    /\ send[s].pc \in {"idle", "store", "restore", "quota", "recharge"} =>
         send[s].day = -1
    /\ send[s].pc = "recharge" => send[s].key \in Days
    /\ send[s].answer = "refused" => send[s].pc = "done"

LimitInv ==
  \A d \in Days :
    /\ IsFiniteSet(Accepted(d))
    /\ Cardinality(Accepted(d)) <= count[d]
    /\ Cardinality(Accepted(d)) <= Limit

IInv ==
  /\ TypeOK
  /\ KeyInv /\ ReadInv /\ RepeatInv /\ AnsweredCodeIsGone /\ VerifiedInTime
  /\ StoredInv
  /\ ChargeInv /\ LimitInv
  /\ SuccessIsLogged

----------------------------------------------------------------------------
(* The day of a charge has a counter.                                      *)

LEMMA LargerProduct ==
  ASSUME NEW d \in Nat \ {0}, NEW p \in Int, NEW q \in Int, q >= p + 1
  PROVE  d * q >= (d * p) + d
<1>1. ASSUME NEW x \in Nat PROVE d * (x + 1) >= d
  BY <1>1, SMTT(30)
<1> QED BY <1>1, SMTT(30)

LEMMA DivMonotonic ==
  ASSUME NEW a \in Nat, NEW b \in Nat, a <= b, NEW d \in Nat \ {0}
  PROVE  a \div d <= b \div d
<1> DEFINE q == a \div d
           p == b \div d
           r == a % d
           s == b % d
<1>1. a = (d * q) + r /\ r \in 0..(d-1) /\ q \in Int
  BY SMTT(30)
<1>2. b = (d * p) + s /\ s \in 0..(d-1) /\ p \in Int
  BY SMTT(30)
<1> HIDE DEF p, q, r, s
<1> SUFFICES ASSUME q >= p + 1 PROVE FALSE
  BY <1>1, <1>2 DEF p, q
<1>3. d * q >= (d * p) + d
  BY <1>1, <1>2, LargerProduct
<1> QED BY <1>1, <1>2, <1>3, SMTT(30)

LEMMA TodayIsADay == \A t \in Times : Today(t) \in Days
<1> SUFFICES ASSUME NEW t \in Times PROVE Today(t) \in Days
  OBVIOUS
<1>1. t \in Nat /\ MaxTime \in Nat /\ t <= MaxTime /\ DayLength \in Nat \ {0}
  BY OtpAssumption DEF Times
<1>2. t \div DayLength <= MaxTime \div DayLength
  BY <1>1, DivMonotonic
<1>3. t \div DayLength \in Nat /\ MaxTime \div DayLength \in Nat
  BY <1>1, SMTT(30)
<1> HIDE <1>1
<1> QED BY <1>2, <1>3 DEF Today, Days

\* -1 is no day, so that a request that was not charged is counted on none.
LEMMA NoDay == -1 \notin Days
BY DEF Days

----------------------------------------------------------------------------
(* The initial state, and the clock.                                       *)

LEMMA InitIInv == Init => IInv
<1> SUFFICES ASSUME Init PROVE IInv
  OBVIOUS
<1>0. 0 \in Times /\ Days \subseteq Nat
  BY OtpAssumption DEF Times, Days
<1>1. \A s \in Sends : /\ send[s].pc = "idle" /\ send[s].value = {} /\ send[s].day = -1
                       /\ send[s].mailed = FALSE /\ send[s].answer = "none"
  BY DEF Init
<1>2. \A v \in Verifies : verify[v].pc = "idle" /\ verify[v].read = {} /\ verify[v].answer = "none"
  BY DEF Init
<1>3. TypeOK
  <2>1. send \in [Sends -> SendRequest]
    BY DEF Init, SendRequest, Outcomes
  <2>2. verify \in [Verifies -> VerifyRequest]
    BY <1>0 DEF Init, VerifyRequest
  <2> QED BY <1>0, <2>1, <2>2 DEF TypeOK, Init
<1>4. KeyInv /\ ReadInv /\ RepeatInv /\ AnsweredCodeIsGone /\ VerifiedInTime
  BY <1>1, <1>2 DEF Init, KeyInv, ReadInv, RepeatInv, AnsweredCodeIsGone, VerifiedInTime, Answered
<1>5. StoredInv /\ ChargeInv /\ SuccessIsLogged
  BY <1>1 DEF StoredInv, ChargeInv, SuccessIsLogged
<1>6. LimitInv
  <2>1. \A d \in Days : Accepted(d) = {}
    BY <1>1, NoDay DEF Accepted
  <2>2. IsFiniteSet({}) /\ Cardinality({}) = 0
    BY FS_EmptySet
  <2>3. \A d \in Days : count[d] = 0
    BY DEF Init
  <2> QED
    BY <2>1, <2>2, <2>3, OtpAssumption DEF LimitInv
<1> QED BY <1>3, <1>4, <1>5, <1>6 DEF IInv

\* What a step that leaves the requests and the counter alone keeps.
LEMMA LimitKept ==
  ASSUME LimitInv, UNCHANGED <<send, count>>
  PROVE  LimitInv'
BY DEF LimitInv, Accepted

\* A code that expires is dropped, and this is one of the reasons for which a
\* mailed code cannot be verified.
LEMMA TimePassesIInv == IInv /\ TimePasses => IInv'
<1> SUFFICES ASSUME IInv, TimePasses PROVE IInv'
  OBVIOUS
<1>u. /\ now < MaxTime /\ now' = now + 1
      /\ otp' = Unexpired(now + 1)
      /\ UNCHANGED <<count, logs, send, verify, stores, removed, retries>>
  BY DEF TimePasses
<1>k. now \in Times /\ now' \in Times /\ now \in Nat /\ otp \in SUBSET Entry /\ otp' \subseteq otp
  BY <1>u, OtpAssumption DEF IInv, TypeOK, Times, Unexpired
<1>1. TypeOK'
  BY <1>u, <1>k DEF IInv, TypeOK
<1>2. KeyInv'
  BY <1>u DEF IInv, KeyInv, Unexpired
<1>3. ReadInv' /\ RepeatInv' /\ AnsweredCodeIsGone' /\ VerifiedInTime'
  BY <1>u, <1>k DEF IInv, ReadInv, RepeatInv, AnsweredCodeIsGone, VerifiedInTime, Answered
<1>4. ASSUME NEW s \in Sends, Usable(s) PROVE Usable(s)'
  <2>1. PICK e \in send[s].value : \/ e \in otp
                                   \/ now >= e.storedAt + Ttl
                                   \/ e.set + 1 < stores
                                   \/ e \in removed
    BY <1>4 DEF Usable
  <2>2. e \in Entry
    BY <1>4, <2>1 DEF IInv, TypeOK, SendRequest
  <2>3. e \in otp => e \in otp' \/ now' >= e.storedAt + Ttl
    BY <1>u, <1>k, <2>2, OtpAssumption DEF Unexpired, Entry, Times
  <2>4. now >= e.storedAt + Ttl => now' >= e.storedAt + Ttl
    BY <1>u, <1>k, <2>2, OtpAssumption DEF Entry, Times
  <2> QED BY <1>u, <2>1, <2>3, <2>4 DEF Usable
<1>5. StoredInv'
  BY <1>u, <1>4 DEF IInv, StoredInv
<1>6. ChargeInv' /\ SuccessIsLogged' /\ LimitInv'
  BY <1>u, LimitKept DEF IInv, ChargeInv, SuccessIsLogged
<1> QED BY <1>1, <1>2, <1>3, <1>5, <1>6 DEF IInv

----------------------------------------------------------------------------
(* SendOTP.                                                                *)

\* Another request keeps its state, its code and its place on the counter.
LEMMA OthersKept ==
  ASSUME IInv, NEW s \in Sends, NEW next, SendStep(s, next)
  PROVE  /\ send'[s] = next
         /\ \A t \in Sends \ {s} : send'[t] = send[t]
         /\ next \in SendRequest => send' \in [Sends -> SendRequest]
BY DEF IInv, TypeOK, SendStep

\* SET: the code is told apart from every code that was there or was read
\* before, or it is repeated and was read early only; another send's code has
\* been replaced by it.
LEMMA StoreIInv ==
  ASSUME IInv, NEW s \in Sends, NEW id, NEW c \in Codes,
         NEW pc \in {"quota", "restore", "done"},
         \/ send[s].pc = "store" /\ id = stores
         \/ send[s].pc = "restore" /\ \E x \in send[s].value : x.id = id,
         SetWithTTL(s, id, c, pc)
  PROVE  IInv'
<1> DEFINE e == [id |-> id, set |-> stores, code |-> c, storedAt |-> now]
           next == [send[s] EXCEPT !.pc = pc, !.value = {e},
                      !.answer = IF pc = "done" THEN "failed" ELSE "none"]
<1>t. TypeOK /\ send[s] \in SendRequest
  BY DEF IInv, TypeOK
<1>i. id \in Nat /\ id < stores + 1 /\ stores \in Nat
  BY <1>t DEF IInv, StoredInv, TypeOK, SendRequest, Entry
<1>e. e \in Entry /\ e.id = id /\ e.set = stores /\ e.storedAt = now
  BY <1>t, <1>i DEF TypeOK, Entry
<1>u. /\ otp' = {e} /\ stores' = stores + 1 /\ SendStep(s, next)
      /\ UNCHANGED <<now, count, logs, verify, removed>>
  BY DEF SetWithTTL, OTPRedisKey
<1>n. /\ next.pc = pc /\ next.value = {e} /\ next.day = send[s].day
      /\ next.mailed = send[s].mailed
      /\ next.answer \in {"failed", "none"} /\ next \in SendRequest
  BY <1>t, <1>e DEF SendRequest
<1> HIDE DEF e, next
<1>o. /\ send'[s] = next
      /\ \A t \in Sends \ {s} : send'[t] = send[t]
      /\ send' \in [Sends -> SendRequest]
  BY <1>u, <1>n, OthersKept
<1>d. send[s].day = -1 /\ send[s].answer # "refused"
  BY DEF IInv, ChargeInv
<1>1. TypeOK'
  BY <1>t, <1>u, <1>e, <1>o DEF TypeOK
<1>2. KeyInv'
  BY <1>t, <1>i, <1>u, <1>e, OtpAssumption DEF KeyInv, TypeOK, Times
<1>r. \A v \in Verifies : \A f \in verify[v].read : f.id < stores /\ f.id \in Nat
  BY <1>t DEF IInv, ReadInv, TypeOK, VerifyRequest, Entry
<1>v. \A t \in Sends : \A f \in send[t].value :
        f.id < stores /\ f.id \in Nat /\ f.set < stores /\ f.set \in Nat
  BY <1>t DEF IInv, StoredInv, TypeOK, SendRequest, Entry
<1>x. \A v \in Verifies : ~verify[v].early => \A f \in verify[v].read : f.id # id
  <2>1. CASE id = stores
    BY <2>1, <1>r, <1>i
  <2>2. CASE send[s].pc = "restore" /\ \E x \in send[s].value : x.id = id
    BY <2>2 DEF IInv, RepeatInv
  <2> QED BY <2>1, <2>2
<1>y. \A t \in Sends \ {s} : \A f \in send[t].value : f.id # id
  <2>1. CASE id = stores
    BY <2>1, <1>v, <1>i
  <2>2. CASE \E x \in send[s].value : x.id = id
    BY <2>2 DEF IInv, RepeatInv
  <2> QED BY <2>1, <2>2
<1>3. ReadInv' /\ AnsweredCodeIsGone' /\ VerifiedInTime'
  <2>1. \A v \in Verifies : \A f \in verify[v].read : f.id < stores'
    BY <1>r, <1>u, <1>i
  <2>2. AnsweredCodeIsGone'
    BY <1>u, <1>e, <1>x DEF AnsweredCodeIsGone, Answered
  <2> QED BY <1>u, <2>1, <2>2 DEF IInv, ReadInv, VerifiedInTime
<1>7. RepeatInv'
  <2>1. \A x, y \in otp' : x = y
    BY <1>u
  <2>2. \A t \in Sends : \A x, y \in send'[t].value : x = y
    BY <1>o, <1>n DEF IInv, RepeatInv
  <2>3. ASSUME NEW t1 \in Sends, NEW t2 \in Sends, NEW x \in send'[t1].value,
               NEW y \in send'[t2].value, x.id = y.id
        PROVE  t1 = t2
    BY <2>3, <1>o, <1>n, <1>e, <1>y DEF IInv, RepeatInv
  <2>4. ASSUME NEW t \in Sends, send'[t].pc = "restore", NEW x \in send'[t].value
        PROVE  /\ \A f \in otp' : f.id = x.id => f = x
               /\ \A v \in Verifies : ~verify'[v].early =>
                    \A f \in verify'[v].read : f.id # x.id
    <3>1. CASE t = s
      BY <3>1, <2>4, <1>u, <1>o, <1>n, <1>e, <1>x
    <3>2. CASE t # s
      BY <3>2, <2>4, <1>u, <1>o, <1>e, <1>y DEF IInv, RepeatInv
    <3> QED BY <3>1, <3>2
  <2> QED BY <2>1, <2>2, <2>3, <2>4 DEF RepeatInv
<1>4. StoredInv'
  <2>1. ASSUME NEW t \in Sends \ {s}
        PROVE  /\ \A f \in send'[t].value : f.id < stores' /\ f.set < stores'
               /\ Usable(t) => Usable(t)'
    <3>1. \A f \in send[t].value : f.id < stores' /\ f.set < stores' /\ f.set + 1 < stores'
      BY <1>v, <1>i, <1>u
    <3>2. send'[t] = send[t]
      BY <1>o
    <3> QED BY <3>1, <3>2 DEF Usable
  <2>2. Usable(s)' /\ \A f \in send'[s].value : f.id < stores' /\ f.set < stores'
    BY <1>u, <1>o, <1>n, <1>e, <1>i DEF Usable
  <2> QED BY <1>o, <1>n, <2>1, <2>2 DEF IInv, StoredInv
<1>5. ChargeInv' /\ SuccessIsLogged'
  BY <1>u, <1>o, <1>n, <1>d DEF IInv, ChargeInv, SuccessIsLogged
<1>6. LimitInv'
  <2>1. \A d \in Days : Accepted(d)' = Accepted(d)
    BY <1>o, <1>n, <1>d DEF Accepted
  <2> QED BY <1>u, <2>1 DEF IInv, LimitInv
<1> QED BY <1>1, <1>2, <1>3, <1>4, <1>5, <1>6, <1>7 DEF IInv

\* A step of SendOTP that does not touch the key keeps what concerns it; the
\* code of s stays as usable as it was.
LEMMA SendKeepsKey ==
  ASSUME IInv, NEW s \in Sends, NEW next \in SendRequest, SendStep(s, next),
         UNCHANGED <<now, otp, verify, stores, removed>>,
         next.value = send[s].value,
         next.pc # "restore",
         next.pc \in {"idle", "store"} => send[s].pc \in {"idle", "store"},
         next.pc \in {"quota", "recharge", "mail", "log"} \/ next.mailed =>
           send[s].pc \in {"quota", "recharge", "mail", "log"} \/ send[s].mailed
  PROVE  /\ count' \in [Days -> Nat] => TypeOK'
         /\ KeyInv' /\ ReadInv' /\ RepeatInv' /\ AnsweredCodeIsGone' /\ VerifiedInTime'
         /\ StoredInv'
<1>o. /\ send'[s] = next
      /\ \A t \in Sends \ {s} : send'[t] = send[t]
      /\ send' \in [Sends -> SendRequest]
  BY OthersKept
<1>1. KeyInv' /\ ReadInv' /\ AnsweredCodeIsGone' /\ VerifiedInTime'
  BY DEF IInv, KeyInv, ReadInv, AnsweredCodeIsGone, VerifiedInTime, Answered
<1>2. \A t \in Sends : send'[t].value = send[t].value
  BY <1>o
<1>3. \A t \in Sends : Usable(t) => Usable(t)'
  BY <1>2 DEF Usable
<1>4. StoredInv'
  BY <1>o, <1>2, <1>3 DEF IInv, StoredInv
<1>5. count' \in [Days -> Nat] => TypeOK'
  BY <1>o DEF IInv, TypeOK
<1>6. RepeatInv'
  BY <1>o, <1>2 DEF IInv, RepeatInv
<1> QED BY <1>1, <1>4, <1>5, <1>6

\* ... and one by which no request is let through keeps the limit.
LEMMA SendKeepsLimit ==
  ASSUME IInv, NEW s \in Sends, NEW next \in SendRequest, SendStep(s, next),
         count' \in [Days -> Nat], \A d \in Days : count[d] <= count'[d],
         \/ next.day = send[s].day
         \/ next.answer = "refused" /\ send[s].day = -1,
         send[s].answer # "refused",
         next.answer = "refused" => send[s].day = -1
  PROVE  LimitInv'
<1>o. send'[s] = next /\ \A t \in Sends \ {s} : send'[t] = send[t]
  BY OthersKept
<1> SUFFICES ASSUME NEW d \in Days
             PROVE  /\ IsFiniteSet(Accepted(d)')
                    /\ Cardinality(Accepted(d)') <= count'[d]
                    /\ Cardinality(Accepted(d)') <= Limit
  BY DEF LimitInv, Accepted
<1>1. Accepted(d)' = Accepted(d)
  BY <1>o, NoDay DEF Accepted
<1>2. /\ IsFiniteSet(Accepted(d)) /\ Cardinality(Accepted(d)) <= count[d]
      /\ Cardinality(Accepted(d)) <= Limit
  BY DEF IInv, LimitInv
<1>3. Cardinality(Accepted(d)) \in Nat /\ count[d] \in Nat /\ count'[d] \in Nat
  BY <1>2, FS_CardinalityType DEF IInv, TypeOK
<1> QED BY <1>1, <1>2, <1>3

\* The counter that a request increments exists.
LEMMA CounterExists ==
  ASSUME IInv, NEW s \in Sends, send[s].pc \in {"quota", "recharge"}
  PROVE  CounterDay(s) \in Days
BY TodayIsADay DEF IInv, TypeOK, ChargeInv, CounterDay

\* The counter goes up by one; a request is let through only if it stays below
\* the limit with it, so that the requests let through before are as many.
LEMMA ChargeIInv == ASSUME IInv, NEW s \in Sends, Charge(s) PROVE IInv'
<1> DEFINE d == CounterDay(s)
           n == count[d] + 1
           next == [send[s] EXCEPT !.key = d, !.day = d,
                      !.pc = IF OverLimit(n) THEN "done" ELSE "mail",
                      !.answer = IF OverLimit(n) THEN "refused" ELSE "none"]
<1>t. TypeOK /\ send[s] \in SendRequest /\ d \in Days /\ n \in Nat
  BY CounterExists DEF IInv, TypeOK, Charge
<1>u. /\ send[s].pc \in {"quota", "recharge"} /\ SendStep(s, next)
      /\ count' = [count EXCEPT ![d] = n]
      /\ UNCHANGED <<now, otp, logs, verify, stores, removed, retries>>
  BY DEF Charge
<1>n. /\ next \in SendRequest /\ next.day = d /\ next.value = send[s].value
      /\ next.mailed = send[s].mailed
      /\ next.pc = (IF OverLimit(n) THEN "done" ELSE "mail")
      /\ next.answer = (IF OverLimit(n) THEN "refused" ELSE "none")
  BY <1>t DEF SendRequest
<1> HIDE DEF next, d
<1>d. send[s].day = -1 /\ send[s].answer # "refused"
  BY <1>u DEF IInv, ChargeInv
<1>c. count' \in [Days -> Nat] /\ \A k \in Days : count[k] <= count'[k]
  BY <1>t, <1>u DEF TypeOK
<1>o. send'[s] = next /\ \A t \in Sends \ {s} : send'[t] = send[t]
  BY <1>u, OthersKept
<1>1. TypeOK' /\ KeyInv' /\ ReadInv' /\ RepeatInv' /\ AnsweredCodeIsGone' /\ VerifiedInTime' /\ StoredInv'
  BY <1>u, <1>n, <1>c, SendKeepsKey
<1>2. ChargeInv' /\ SuccessIsLogged'
  BY <1>u, <1>o, <1>n DEF IInv, ChargeInv, SuccessIsLogged
<1>3. LimitInv'
  <2>1. CASE OverLimit(n)
    BY <2>1, <1>u, <1>n, <1>d, <1>c, SendKeepsLimit
  <2>2. CASE ~OverLimit(n)
    <3> SUFFICES ASSUME NEW k \in Days
                 PROVE  /\ IsFiniteSet(Accepted(k)')
                        /\ Cardinality(Accepted(k)') <= count'[k]
                        /\ Cardinality(Accepted(k)') <= Limit
      BY DEF LimitInv, Accepted
    <3>1. /\ IsFiniteSet(Accepted(k)) /\ Cardinality(Accepted(k)) <= count[k]
          /\ Cardinality(Accepted(k)) <= Limit /\ Cardinality(Accepted(k)) \in Nat
      BY FS_CardinalityType DEF IInv, LimitInv
    <3>2. CASE k # d
      <4>1. Accepted(k)' = Accepted(k) /\ count'[k] = count[k]
        BY <3>2, <1>t, <1>u, <1>o, <1>n, <1>d, NoDay DEF Accepted, TypeOK
      <4> QED BY <4>1, <3>1
    <3>3. CASE k = d
      <4>1. s \notin Accepted(k) /\ Accepted(k)' = Accepted(k) \cup {s}
        BY <3>3, <2>2, <1>o, <1>n, <1>d, NoDay DEF Accepted
      <4>2. /\ IsFiniteSet(Accepted(k)')
            /\ Cardinality(Accepted(k)') = Cardinality(Accepted(k)) + 1
        BY <4>1, <3>1, FS_AddElement
      <4>3. count'[k] = count[k] + 1 /\ count[k] + 1 < Limit /\ count[k] \in Nat
        BY <3>3, <2>2, <1>t, <1>u, OtpAssumption DEF OverLimit, TypeOK
      <4> QED BY <4>2, <4>3, <3>1, OtpAssumption
    <3> QED BY <3>2, <3>3
  <2> QED BY <2>1, <2>2
<1> QED BY <1>1, <1>2, <1>3 DEF IInv

\* The other steps: nothing is let through by them, and "ok" is answered only
\* with the row.
LEMMA SendOTPIInv == ASSUME IInv, NEW s \in Sends, SendOTP(s) PROVE IInv'
<1>t. TypeOK /\ send[s] \in SendRequest
  BY DEF IInv, TypeOK
<1>a. send[s].answer = "refused" => send[s].pc = "done"
  BY DEF IInv, ChargeInv
<1>1. CASE Store(s) \/ StoreAgain(s)
  <2>1. \A e \in send[s].value : e.code \in Codes
    BY <1>t DEF SendRequest, Entry
  <2> QED
    BY <1>1, <2>1, StoreIInv DEF Store, StoreAgain, SetAndWait
<1>2. CASE Charge(s)
  BY <1>2, ChargeIInv
<1>3. ASSUME NEW next \in SendRequest, SendStep(s, next),
             UNCHANGED <<now, otp, verify, stores, removed>>,
             next.value = send[s].value, next.day = send[s].day,
             \/ next.pc \in {"mail", "log", "done"}
             \/ next.pc = "recharge" /\ next.key \in Days /\ send[s].pc \in {"quota", "recharge"}
             \/ next.pc = "store" /\ send[s].pc = "idle",
             next.pc \in {"mail", "log"} \/ next.mailed =>
               send[s].pc \in {"quota", "recharge", "mail", "log"} \/ send[s].mailed,
             send[s].pc # "done",
             next.answer # "refused",
             count' \in [Days -> Nat], \A d \in Days : count[d] <= count'[d],
             logs \subseteq logs',
             next.answer = "ok" => [send |-> s, status |-> "sent"] \in logs'
      PROVE  IInv'
  <2>o. send'[s] = next /\ \A t \in Sends \ {s} : send'[t] = send[t]
    BY <1>3, OthersKept
  <2>1. TypeOK' /\ KeyInv' /\ ReadInv' /\ RepeatInv' /\ AnsweredCodeIsGone' /\ VerifiedInTime' /\ StoredInv'
    BY <1>3, SendKeepsKey
  <2>2. LimitInv'
    BY <1>3, <1>a, SendKeepsLimit
  <2>3. ChargeInv'
    BY <1>3, <2>o DEF IInv, ChargeInv
  <2>4. SuccessIsLogged'
    BY <1>3, <2>o DEF IInv, SuccessIsLogged
  <2> QED BY <2>1, <2>2, <2>3, <2>4 DEF IInv
<1>c. count \in [Days -> Nat] /\ \A d \in Days : count[d] <= count[d]
  BY <1>t DEF TypeOK
<1>e. ASSUME NEW a \in {"ok", "failed"}
      PROVE  LET next == [send[s] EXCEPT !.pc = "done", !.answer = a] IN
             /\ next \in SendRequest /\ next.pc = "done" /\ next.answer = a
             /\ next.value = send[s].value /\ next.day = send[s].day
             /\ next.mailed = send[s].mailed
  BY <1>t DEF SendRequest
<1>4. CASE NoCharge(s)
  <2> DEFINE next == [send[s] EXCEPT !.pc = "mail"]
  <2>1. /\ next \in SendRequest /\ next.pc = "mail" /\ next.answer = send[s].answer
        /\ next.value = send[s].value /\ next.day = send[s].day
    BY <1>t DEF SendRequest
  <2>2. /\ SendStep(s, next) /\ send[s].pc = "quota"
        /\ UNCHANGED <<now, otp, count, logs, verify, stores, removed>>
    BY <1>4 DEF NoCharge
  <2> HIDE DEF next
  <2>3. next.answer = "ok" => [send |-> s, status |-> "sent"] \in logs
    BY <2>1 DEF IInv, SuccessIsLogged
  <2> QED BY <2>1, <2>2, <2>3, <1>a, <1>c, <1>3
<1>5. CASE ChargeFails(s)
  <2> DEFINE next == [send[s] EXCEPT !.pc = "done", !.answer = "failed"]
  <2>1. /\ SendStep(s, next) /\ send[s].pc \in {"quota", "recharge"}
        /\ UNCHANGED <<now, otp, logs, verify, stores, removed>>
    BY <1>5 DEF ChargeFails, SendEnds
  <2>2. count' \in [Days -> Nat] /\ \A d \in Days : count[d] <= count'[d]
    BY <1>5, <1>t, CounterExists DEF ChargeFails, TypeOK
  <2>3. /\ next \in SendRequest /\ next.pc = "done" /\ next.answer = "failed"
        /\ next.value = send[s].value /\ next.day = send[s].day
        /\ next.mailed = send[s].mailed
    BY <1>e
  <2> HIDE DEF next
  <2> QED BY <2>1, <2>2, <2>3, <1>3
<1>9. CASE ChargeLosesAnswer(s)
  <2> DEFINE next == [send[s] EXCEPT !.pc = "recharge", !.key = CounterDay(s)]
  <2>0. send[s].pc \in {"quota", "recharge"} /\ CounterDay(s) \in Days
    BY <1>9, CounterExists DEF ChargeLosesAnswer
  <2>1. /\ SendStep(s, next)
        /\ UNCHANGED <<now, otp, logs, verify, stores, removed>>
    BY <1>9 DEF ChargeLosesAnswer
  <2>2. count' \in [Days -> Nat] /\ \A d \in Days : count[d] <= count'[d]
    BY <1>9, <1>t, <2>0 DEF ChargeLosesAnswer, TypeOK
  <2>3. /\ next \in SendRequest /\ next.pc = "recharge" /\ next.answer = send[s].answer
        /\ next.value = send[s].value /\ next.day = send[s].day
        /\ next.mailed = send[s].mailed /\ next.key = CounterDay(s)
    BY <1>t, <2>0 DEF SendRequest
  <2> HIDE DEF next
  <2>4. next.answer = "ok" => [send |-> s, status |-> "sent"] \in logs
    BY <2>3 DEF IInv, SuccessIsLogged
  <2> QED BY <2>0, <2>1, <2>2, <2>3, <2>4, <1>a, <1>3
<1>10. CASE SendBegins(s)
  <2> DEFINE next == [send[s] EXCEPT !.pc = "store"]
  <2>1. /\ next \in SendRequest /\ next.pc = "store" /\ next.answer = send[s].answer
        /\ next.value = send[s].value /\ next.day = send[s].day
        /\ next.mailed = send[s].mailed
    BY <1>t DEF SendRequest
  <2>2. /\ SendStep(s, next) /\ send[s].pc = "idle"
        /\ UNCHANGED <<now, otp, count, logs, verify, stores, removed>>
    BY <1>10 DEF SendBegins
  <2> HIDE DEF next
  <2>3. next.answer = "ok" => [send |-> s, status |-> "sent"] \in logs
    BY <2>1 DEF IInv, SuccessIsLogged
  <2> QED BY <2>1, <2>2, <2>3, <1>a, <1>c, <1>3
<1>6. CASE Mail(s)
  <2>1. PICK o \in Outcomes :
          SendStep(s, [send[s] EXCEPT !.pc = "log", !.mailed = TRUE, !.outcome = o])
    BY <1>6 DEF Mail
  <2> DEFINE next == [send[s] EXCEPT !.pc = "log", !.mailed = TRUE, !.outcome = o]
  <2>2. /\ next \in SendRequest /\ next.pc = "log" /\ next.answer = send[s].answer
        /\ next.value = send[s].value /\ next.day = send[s].day
    BY <1>t DEF SendRequest, Outcomes
  <2>3. /\ SendStep(s, next) /\ send[s].pc = "mail"
        /\ UNCHANGED <<now, otp, count, logs, verify, stores, removed>>
    BY <1>6, <2>1 DEF Mail
  <2> HIDE DEF next
  <2>4. next.answer = "ok" => [send |-> s, status |-> "sent"] \in logs
    BY <2>2 DEF IInv, SuccessIsLogged
  <2> QED BY <2>2, <2>3, <2>4, <1>a, <1>c, <1>3
<1>7. CASE Log(s)
  <2>1. PICK a \in {"ok", "failed"} :
          SendEnds(s, a) /\ (a = "ok" => send[s].outcome = "sent")
    BY <1>7 DEF Log
  <2> DEFINE next == [send[s] EXCEPT !.pc = "done", !.answer = a]
  <2>2. /\ next \in SendRequest /\ next.pc = "done" /\ next.answer = a
        /\ next.value = send[s].value /\ next.day = send[s].day
        /\ next.mailed = send[s].mailed
    BY <1>e
  <2>3. /\ SendStep(s, next) /\ send[s].pc = "log"
        /\ logs' = logs \union {[send |-> s, status |-> send[s].outcome]}
        /\ UNCHANGED <<now, otp, count, verify, stores, removed>>
    BY <1>7, <2>1 DEF Log, SendEnds
  <2> HIDE DEF next
  <2> QED BY <2>1, <2>2, <2>3, <1>c, <1>3
<1>8. CASE SendFails(s)
  <2> DEFINE next == [send[s] EXCEPT !.pc = "done", !.answer = "failed"]
  <2>1. /\ SendStep(s, next) /\ send[s].pc \notin {"idle", "done"}
        /\ UNCHANGED <<now, otp, count, logs, verify, stores, removed>>
    BY <1>8 DEF SendFails, SendEnds
  <2>2. /\ next \in SendRequest /\ next.pc = "done" /\ next.answer = "failed"
        /\ next.value = send[s].value /\ next.day = send[s].day
        /\ next.mailed = send[s].mailed
    BY <1>e
  <2> HIDE DEF next
  <2> QED BY <2>1, <2>2, <1>c, <1>3
<1> QED
  BY <1>1, <1>2, <1>4, <1>5, <1>6, <1>7, <1>8, <1>9, <1>10 DEF SendOTP

----------------------------------------------------------------------------
(* VerifyOTP.                                                              *)

\* What v has read, and is told, holds; the others keep theirs.
LEMMA VerifyKeeps ==
  ASSUME IInv, NEW v \in Verifies, NEW next \in VerifyRequest, VerifyStep(v, next),
         UNCHANGED <<now, count, logs, send, stores>>,
         otp' \subseteq otp, removed' = removed \union (otp \ otp'),
         next.answer # "none" => next.pc = "done",
         \A e \in next.read : e.id < stores /\ next.readAt < e.storedAt + Ttl,
         \/ next.read \subseteq verify[v].read /\ (verify[v].early => next.early \/ next.read = {})
         \/ next.read = otp /\ next.early = ToBeSetAgain,
         next.answer \in {"verified", "invalid", "notFound"} => otp' = {},
         next.answer = "verified" => \E e \in next.read : e.code = next.code
  PROVE  IInv'
<1>o. /\ verify'[v] = next
      /\ \A w \in Verifies \ {v} : verify'[w] = verify[w]
      /\ verify' \in [Verifies -> VerifyRequest]
  BY DEF IInv, TypeOK, VerifyStep
<1>1. TypeOK' /\ KeyInv'
  BY <1>o DEF IInv, TypeOK, KeyInv
<1>2. ReadInv'
  BY <1>o DEF IInv, ReadInv
<1>3. AnsweredCodeIsGone' /\ VerifiedInTime'
  BY <1>o DEF IInv, AnsweredCodeIsGone, VerifiedInTime, Answered
<1>7. RepeatInv'
  <2> SUFFICES ASSUME NEW s \in Sends, send[s].pc = "restore", NEW x \in send[s].value,
                      ~next.early, NEW f \in next.read
               PROVE  f.id # x.id
    BY <1>o DEF IInv, RepeatInv
  <2>1. CASE next.read \subseteq verify[v].read /\ (verify[v].early => next.early \/ next.read = {})
    BY <2>1 DEF IInv, RepeatInv
  <2>2. CASE next.read = otp /\ next.early = ToBeSetAgain
    <3>1. f \in otp /\ send[s].value # otp
      BY <2>2 DEF ToBeSetAgain
    <3>2. otp = {f} /\ send[s].value = {x}
      BY <3>1 DEF IInv, RepeatInv
    <3> QED BY <3>1, <3>2 DEF IInv, RepeatInv
  <2> QED BY <2>1, <2>2
<1>4. \A s \in Sends : Usable(s) => Usable(s)'
  BY DEF Usable
<1>5. StoredInv'
  BY <1>4 DEF IInv, StoredInv
<1>6. ChargeInv' /\ SuccessIsLogged' /\ LimitInv'
  BY LimitKept DEF IInv, ChargeInv, SuccessIsLogged
<1> QED BY <1>1, <1>2, <1>3, <1>5, <1>6, <1>7 DEF IInv

LEMMA VerifyOTPIInv == ASSUME IInv, NEW v \in Verifies, VerifyOTP(v) PROVE IInv'
<1>t. TypeOK /\ verify[v] \in VerifyRequest
  BY DEF IInv, TypeOK
<1>r. /\ verify[v].answer # "none" => verify[v].pc = "done"
      /\ \A e \in verify[v].read : e.id < stores /\ verify[v].readAt < e.storedAt + Ttl
  BY DEF IInv, ReadInv
<1>1. CASE Get(v)
  <2> DEFINE next == [verify[v] EXCEPT !.pc = "del", !.read = otp, !.readAt = now,
                                       !.early = ToBeSetAgain]
  <2>1. /\ next \in VerifyRequest /\ next.pc = "del" /\ next.read = otp
        /\ next.readAt = now /\ next.answer = verify[v].answer
        /\ next.early = ToBeSetAgain
    BY <1>t DEF TypeOK, VerifyRequest, ToBeSetAgain
  <2>2. /\ VerifyStep(v, next) /\ verify[v].pc = "get"
        /\ UNCHANGED <<now, otp, count, logs, send, stores, removed>>
    BY <1>1 DEF Get
  <2> HIDE DEF next
  <2>3. \A e \in next.read : e.id < stores /\ next.readAt < e.storedAt + Ttl
    BY <2>1 DEF IInv, KeyInv
  <2> QED BY <2>1, <2>2, <2>3, <1>r, VerifyKeeps
<1>2. ASSUME NEW pc \in {"get", "done"}, NEW answer, Del(v, pc, answer),
             \/ pc = "get" /\ answer = "none"
             \/ pc = "done" /\ answer \in {"failed", Judge(v)}
      PROVE  IInv'
  <2> DEFINE next == [verify[v] EXCEPT !.pc = pc, !.answer = answer]
  <2>1. Judge(v) \in {"verified", "invalid", "notFound"}
    BY DEF Judge
  <2>2. Judge(v) = "verified" => \E e \in verify[v].read : e.code = verify[v].code
    BY DEF Judge
  <2>3. /\ next \in VerifyRequest /\ next.pc = pc /\ next.answer = answer
        /\ next.read = verify[v].read /\ next.readAt = verify[v].readAt
        /\ next.early = verify[v].early
        /\ next.code = verify[v].code
    BY <1>2, <1>t, <2>1 DEF VerifyRequest
  <2>4. /\ VerifyStep(v, next) /\ otp' = {} /\ removed' = removed \union otp
        /\ UNCHANGED <<now, count, logs, send, stores>>
    BY <1>2 DEF Del, DelRemoves
  <2> HIDE DEF next
  <2> QED BY <1>2, <1>r, <2>1, <2>2, <2>3, <2>4, VerifyKeeps
<1>3. CASE GetAndDelete(v) \/ DeleteLosesAnswer(v)
  BY <1>3, <1>2 DEF GetAndDelete, DeleteLosesAnswer
<1>4. CASE VerifyFails(v)
  <2>0. UNCHANGED <<now, otp, count, logs, send, stores, removed>>
    BY <1>4 DEF VerifyFails
  <2>1. CASE /\ verify[v].pc = "del"
             /\ VerifyStep(v, [verify[v] EXCEPT !.pc = "get"])
    <3> DEFINE next == [verify[v] EXCEPT !.pc = "get"]
    <3>1. /\ next \in VerifyRequest /\ next.answer = verify[v].answer
          /\ next.read = verify[v].read /\ next.readAt = verify[v].readAt
          /\ next.early = verify[v].early
      BY <1>t DEF VerifyRequest
    <3> HIDE DEF next
    <3>2. VerifyStep(v, next)
      BY <2>1 DEF next
    <3> QED BY <2>0, <2>1, <3>1, <3>2, <1>r, VerifyKeeps
  <2>2. CASE VerifyStep(v, [verify[v] EXCEPT !.pc = "done", !.read = {}, !.answer = "failed"])
    <3> DEFINE next == [verify[v] EXCEPT !.pc = "done", !.read = {}, !.answer = "failed"]
    <3>1. /\ next \in VerifyRequest /\ next.answer = "failed" /\ next.pc = "done"
          /\ next.read = {}
      BY <1>t DEF VerifyRequest
    <3> HIDE DEF next
    <3>2. VerifyStep(v, next)
      BY <2>2 DEF next
    <3> QED BY <2>0, <3>1, <3>2, VerifyKeeps
  <2> QED BY <1>4, <2>1, <2>2 DEF VerifyFails
<1>5. CASE VerifyBegins(v)
  <2>1. PICK c \in Codes : VerifyStep(v, [verify[v] EXCEPT !.pc = "get", !.code = c])
    BY <1>5 DEF VerifyBegins
  <2> DEFINE next == [verify[v] EXCEPT !.pc = "get", !.code = c]
  <2>2. /\ next \in VerifyRequest /\ next.answer = verify[v].answer
        /\ next.read = verify[v].read /\ next.readAt = verify[v].readAt
        /\ next.early = verify[v].early
    BY <1>t DEF VerifyRequest
  <2>3. /\ VerifyStep(v, next) /\ verify[v].pc = "idle"
        /\ UNCHANGED <<now, otp, count, logs, send, stores, removed>>
    BY <1>5, <2>1 DEF VerifyBegins
  <2> HIDE DEF next
  <2> QED BY <2>2, <2>3, <1>r, VerifyKeeps
<1> QED BY <1>1, <1>3, <1>4, <1>5 DEF VerifyOTP

----------------------------------------------------------------------------
LEMMA NextIInv == IInv /\ [Next]_vars => IInv'
<1> SUFFICES ASSUME IInv, [Next]_vars PROVE IInv'
  OBVIOUS
<1>1. CASE TimePasses
  BY <1>1, TimePassesIInv
<1>2. ASSUME NEW s \in Sends, SendOTP(s) PROVE IInv'
  BY <1>2, SendOTPIInv
<1>3. ASSUME NEW v \in Verifies, VerifyOTP(v) PROVE IInv'
  BY <1>3, VerifyOTPIInv
<1>4. CASE UNCHANGED vars
  <2>1. TypeOK' /\ KeyInv' /\ ReadInv' /\ RepeatInv' /\ AnsweredCodeIsGone' /\ VerifiedInTime'
    BY <1>4 DEF vars, IInv, TypeOK, KeyInv, ReadInv, RepeatInv,
                AnsweredCodeIsGone, VerifiedInTime, Answered
  <2>2. StoredInv' /\ ChargeInv' /\ LimitInv' /\ SuccessIsLogged'
    BY <1>4, LimitKept DEF vars, IInv, StoredInv, Usable, ChargeInv, SuccessIsLogged
  <2> QED BY <2>1, <2>2 DEF IInv
<1> QED BY <1>1, <1>2, <1>3, <1>4 DEF Next

LEMMA Invariance == Spec => []IInv
BY InitIInv, NextIInv, PTL DEF Spec

\* The code a verification was judged by, right or wrong, is gone for good: no
\* later request is compared with it, whichever commands are repeated, unless it
\* was read between a SET and the client's repetition of it (redis.go,
\* SetWithTTL and GetAndDelete).
THEOREM AnsweredGone == Spec => []AnsweredCodeIsGone
<1>1. IInv => AnsweredCodeIsGone
  BY DEF IInv
<1> QED BY <1>1, Invariance, PTL

\* "verified" is said only of a code that the key held, within its TTL, when it
\* was read (redis.go, SetWithTTL and GetAndDelete).
THEOREM VerifiedTimely == Spec => []VerifiedInTime
<1>1. IInv => VerifiedInTime
  BY DEF IInv
<1> QED BY <1>1, Invariance, PTL

\* A code that was mailed can be verified, unless it expired, was replaced or
\* was taken away (email.go, SendOTP: store, charge, mail, in this order).
THEOREM MailedUsable == Spec => []MailedCodeIsUsable
<1>1. IInv => MailedCodeIsUsable
  BY DEF IInv, StoredInv, Usable, MailedCodeIsUsable
<1> QED BY <1>1, Invariance, PTL

\* However many requests are counted at the same time, and however often the
\* client repeats an INCR, those let through on one day are within the limit
\* (usage.go, IncrementOTPCount).
THEOREM DailyLimit == Spec => []WithinDailyLimit
<1>1. IInv => WithinDailyLimit
  BY DEF IInv, LimitInv, WithinDailyLimit
<1> QED BY <1>1, Invariance, PTL

\* A caller is told "sent" only of what the log shows as sent (email.go).
THEOREM SuccessLogged == Spec => []SuccessIsLogged
<1>1. IInv => SuccessIsLogged
  BY DEF IInv
<1> QED BY <1>1, Invariance, PTL
=============================================================================
