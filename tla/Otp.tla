--------------------------------- MODULE Otp ---------------------------------
(***************************************************************************)
(* One-time passcodes: EmailService.SendOTP and EmailService.VerifyOTP for *)
(* one user and one address, that is for one Redis key, which has a TTL,   *)
(* and one daily counter.  Requests interleave at every call they make to  *)
(* Redis, PostgreSQL and the mail server; any of these calls can fail, with *)
(* or without having taken effect, and a request can die with its process. *)
(***************************************************************************)
EXTENDS Integers, FiniteSets

CONSTANTS
  Codes,        \* the 6-digit codes
  Sends,        \* bound: SendOTP requests
  Verifies,     \* bound: VerifyOTP requests
  MaxRequests,  \* bound: requests of both kinds together
  Ttl,          \* model.OTPTTl, in ticks of the clock
  DayLength,    \* a UTC day, in ticks
  Limit,        \* FreeTierOTPLimit
  MaxTime,      \* bound: the clock stops there
  MaxRetries    \* bound: commands the Redis client sends once more

ASSUME OtpAssumption ==
  /\ Codes # {}
  /\ Ttl \in Nat \ {0} /\ DayLength \in Nat \ {0}
  /\ Limit \in Nat
  /\ MaxRequests \in Nat /\ MaxTime \in Nat /\ MaxRetries \in Nat

Times == 0..MaxTime
Days == 0..(MaxTime \div DayLength)
Today(t) == t \div DayLength

VARIABLES
  now,       \* the clock
  otp,       \* the Redis key's value: an Entry, or no element
  count,     \* [Days -> Nat], the user's OTP counters in Redis
  logs,      \* the rows of email_logs: [send, status]
  send,      \* [Sends -> SendRequest]
  verify,    \* [Verifies -> VerifyRequest]
  stores,    \* history: how often the key was set
  removed,   \* history: the values that a DEL took away
  retries    \* commands sent once more so far

vars == <<now, otp, count, logs, send, verify, stores, removed, retries>>

Outcomes == {"sent", "failed"}

\* id tells apart the codes that were generated, even if they are equal, and set
\* the SETs: the client's repetition of a SET stores the same code once more.
Entry == [id : Nat, set : Nat, code : Codes, storedAt : Times]

\* pc is the next thing SendOTP does, answer what its caller is told; key is the
\* day of the counter that it increments, or -1. History: value is what the key
\* was given, day the day on whose counter the request was judged, or -1, mailed
\* whether the code was mailed.
SendRequest ==
  [pc : {"idle", "store", "restore", "quota", "recharge", "mail", "log", "done"},
   value : SUBSET Entry, key : Days \union {-1}, day : Days \union {-1},
   mailed : BOOLEAN, outcome : Outcomes,
   answer : {"none", "ok", "failed", "refused"}]

\* read is what GET returned. History: readAt, when, and early, whether the
\* client was about to repeat the SET that GET read.
VerifyRequest ==
  [pc : {"idle", "get", "del", "done"}, code : Codes \union {"none"},
   read : SUBSET Entry, readAt : Times, early : BOOLEAN,
   answer : {"none", "verified", "invalid", "notFound", "failed"}]

Init ==
  /\ now = 0
  /\ otp = {}
  /\ count = [d \in Days |-> 0]
  /\ logs = {}
  /\ send = [s \in Sends |->
       [pc |-> "idle", value |-> {}, key |-> -1, day |-> -1, mailed |-> FALSE,
        outcome |-> "failed", answer |-> "none"]]
  /\ verify = [v \in Verifies |->
       [pc |-> "idle", code |-> "none", read |-> {}, readAt |-> 0,
        early |-> FALSE, answer |-> "none"]]
  /\ stores = 0
  /\ removed = {}
  /\ retries = 0

\* The key set without its TTL.
Unexpired_NoTTL(t) == otp
Unexpired(t) == {e \in otp : t < e.storedAt + Ttl}

\* Time passes, and Redis drops a key whose TTL has run out.
TimePasses ==
  /\ now < MaxTime
  /\ now' = now + 1
  /\ otp' = Unexpired(now + 1)
  /\ UNCHANGED <<count, logs, send, verify, stores, removed, retries>>

\* A request comes in.
Begins ==
  Cardinality({s \in Sends : send[s].pc # "idle"})
    + Cardinality({v \in Verifies : verify[v].pc # "idle"}) < MaxRequests

\* The client library sends a command once more on its own.
Retry == retries < MaxRetries /\ retries' = retries + 1

----------------------------------------------------------------------------
(* SendOTP.                                                                *)

SendStep(s, next) == send' = [send EXCEPT ![s] = next]
SendEnds(s, a) ==
  SendStep(s, [send[s] EXCEPT !.pc = "done", !.answer = a])

\* The key is the user's and the address's, so the new code takes the place of
\* the old one.
OTPRedisKey(e) == {e}

\* SET with the TTL.
SetWithTTL(s, id, code, pc) ==
  LET e == [id |-> id, set |-> stores, code |-> code, storedAt |-> now] IN
  /\ otp' = OTPRedisKey(e)
  /\ stores' = stores + 1
  /\ SendStep(s, [send[s] EXCEPT !.pc = pc, !.value = {e},
                    !.answer = IF pc = "done" THEN "failed" ELSE "none"])
  /\ UNCHANGED <<now, count, logs, verify, removed>>

\* The SET is answered, or it is carried out and its answer is lost: then SendOTP
\* gives up, or the client library sends the same SET once more.
SetAndWait(s, id, code) ==
  \/ SetWithTTL(s, id, code, "quota") /\ UNCHANGED retries
  \/ SetWithTTL(s, id, code, "done") /\ UNCHANGED retries
  \/ SetWithTTL(s, id, code, "restore") /\ Retry

SendBegins(s) ==
  /\ send[s].pc = "idle"
  /\ Begins
  /\ SendStep(s, [send[s] EXCEPT !.pc = "store"])
  /\ UNCHANGED <<now, otp, count, logs, verify, stores, removed, retries>>

Store(s) ==
  /\ send[s].pc = "store"
  /\ \E c \in Codes : SetAndWait(s, stores, c)

\* The same code again, whatever happened to it in the meantime.
StoreAgain(s) ==
  /\ send[s].pc = "restore"
  /\ \E e \in send[s].value : SetAndWait(s, e.id, e.code)

\* The count compared as it was before this request.
OverLimit_OldCount(n) == n - 1 > Limit
OverLimit(n) == n >= Limit

\* The counter's key is made once; the client's repetition of INCR after midnight
\* goes to the same day's.
CounterDay(s) == IF send[s].pc = "quota" THEN Today(now) ELSE send[s].key

\* Without an SMTP configuration of the user's own (or when reading it fails)
\* the day's counter is incremented first and then compared: a request that is
\* refused has been counted, and its code stays in Redis.
Charge(s) ==
  /\ send[s].pc \in {"quota", "recharge"}
  /\ LET d == CounterDay(s)
         n == count[d] + 1
     IN
     /\ count' = [count EXCEPT ![d] = n]
     /\ SendStep(s, [send[s] EXCEPT
          !.key = d, !.day = d,
          !.pc = IF OverLimit(n) THEN "done" ELSE "mail",
          !.answer = IF OverLimit(n) THEN "refused" ELSE "none"])
  /\ UNCHANGED <<now, otp, logs, verify, stores, removed, retries>>

\* With one, nothing is counted.
NoCharge(s) ==
  /\ send[s].pc = "quota"
  /\ SendStep(s, [send[s] EXCEPT !.pc = "mail"])
  /\ UNCHANGED <<now, otp, count, logs, verify, stores, removed, retries>>

\* The counter is incremented, and then INCR's answer is lost or its expiry
\* cannot be set.
ChargeFails(s) ==
  /\ send[s].pc \in {"quota", "recharge"}
  /\ count' = [count EXCEPT ![CounterDay(s)] = @ + 1]
  /\ SendEnds(s, "failed")
  /\ UNCHANGED <<now, otp, logs, verify, stores, removed, retries>>

\* INCR's answer is lost and the client library sends it once more: the request
\* is counted twice.
ChargeLosesAnswer(s) ==
  /\ send[s].pc \in {"quota", "recharge"}
  /\ Retry
  /\ count' = [count EXCEPT ![CounterDay(s)] = @ + 1]
  /\ SendStep(s, [send[s] EXCEPT !.pc = "recharge", !.key = CounterDay(s)])
  /\ UNCHANGED <<now, otp, logs, verify, stores, removed>>

\* By the user's mailer or the default relay.  What Send reports need not be
\* what happened: the server's answer can be lost, and the one to the end of
\* the data is ignored.
Mail(s) ==
  /\ send[s].pc = "mail"
  /\ \E o \in Outcomes :
       SendStep(s, [send[s] EXCEPT !.pc = "log", !.mailed = TRUE, !.outcome = o])
  /\ UNCHANGED <<now, otp, count, logs, verify, stores, removed, retries>>

\* The row is written; its answer may still be lost.
Log(s) ==
  /\ send[s].pc = "log"
  /\ logs' = logs \union {[send |-> s, status |-> send[s].outcome]}
  /\ \/ send[s].outcome = "sent" /\ SendEnds(s, "ok")
     \/ SendEnds(s, "failed")
  /\ UNCHANGED <<now, otp, count, verify, stores, removed, retries>>

\* The SET's error passed over.
SendFails_StoreGoesOn(s) ==
  /\ send[s].pc \notin {"idle", "done"}
  /\ IF send[s].pc = "store"
       THEN SendStep(s, [send[s] EXCEPT !.pc = "quota"])
       ELSE SendEnds(s, "failed")
  /\ UNCHANGED <<now, otp, count, logs, verify, stores, removed, retries>>

\* The log's error passed over, as the scheduler does with its own.
SendFails_LogSwallowed(s) ==
  /\ send[s].pc \notin {"idle", "done"}
  /\ SendEnds(s, IF send[s].pc = "log" /\ send[s].outcome = "sent"
                   THEN "ok" ELSE "failed")
  /\ UNCHANGED <<now, otp, count, logs, verify, stores, removed, retries>>

\* The next call fails without effect (generating the code, SET, the counter,
\* the mailer or the log): every error ends the request. So does the exit of
\* its process.
SendFails(s) ==
  /\ send[s].pc \notin {"idle", "done"}
  /\ SendEnds(s, "failed")
  /\ UNCHANGED <<now, otp, count, logs, verify, stores, removed, retries>>

SendOTP(s) ==
  \/ SendBegins(s)
  \/ Store(s) \/ StoreAgain(s)
  \/ Charge(s) \/ NoCharge(s) \/ ChargeFails(s) \/ ChargeLosesAnswer(s)
  \/ Mail(s) \/ Log(s)
  \/ SendFails(s)

----------------------------------------------------------------------------
(* VerifyOTP: GetAndDelete sends GET and DEL in one pipeline, which is not  *)
(* a transaction.                                                           *)

VerifyStep(v, next) == verify' = [verify EXCEPT ![v] = next]

VerifyBegins(v) ==
  /\ verify[v].pc = "idle"
  /\ Begins
  /\ \E c \in Codes : VerifyStep(v, [verify[v] EXCEPT !.pc = "get", !.code = c])
  /\ UNCHANGED <<now, otp, count, logs, send, stores, removed, retries>>

\* History: the key's value is one that the client is going to SET again.
ToBeSetAgain == \E s \in Sends : send[s].pc = "restore" /\ send[s].value = otp

Get(v) ==
  /\ verify[v].pc = "get"
  /\ VerifyStep(v, [verify[v] EXCEPT
       !.pc = "del", !.read = otp, !.readAt = now, !.early = ToBeSetAgain])
  /\ UNCHANGED <<now, otp, count, logs, send, stores, removed, retries>>

Judge(v) ==
  CASE verify[v].read = {} -> "notFound"
    [] \E e \in verify[v].read : e.code # verify[v].code -> "invalid"
    [] OTHER -> "verified"

\* The key deleted only when the code is the right one.
DelRemoves_OnMatch(v) == IF Judge(v) = "verified" THEN otp ELSE {}
DelRemoves(v) == otp

\* DEL, whatever GET returned and whatever the key holds by now.
Del(v, pc, answer) ==
  /\ verify[v].pc = "del"
  /\ otp' = otp \ DelRemoves(v)
  /\ VerifyStep(v, [verify[v] EXCEPT
       !.pc = pc, !.answer = answer])
  /\ removed' = removed \union DelRemoves(v)
  /\ UNCHANGED <<now, count, logs, send, stores>>

GetAndDelete(v) == Del(v, "done", Judge(v)) /\ UNCHANGED retries

\* The answer to the pipeline is lost after its DEL was carried out: the client
\* library sends it once more, or VerifyOTP gives up.
DeleteLosesAnswer(v) ==
  \/ Retry /\ Del(v, "get", "none")
  \/ UNCHANGED retries /\ Del(v, "done", "failed")

\* The connection fails before the next command is carried out, or the process
\* exits.
VerifyFails(v) ==
  /\ \/ /\ Retry
        /\ verify[v].pc = "del"
        /\ VerifyStep(v, [verify[v] EXCEPT !.pc = "get"])
     \/ /\ UNCHANGED retries
        /\ verify[v].pc \notin {"idle", "done"}
        /\ VerifyStep(v, [verify[v] EXCEPT
             !.pc = "done", !.read = {}, !.answer = "failed"])
  /\ UNCHANGED <<now, otp, count, logs, send, stores, removed>>

VerifyOTP(v) ==
  \/ VerifyBegins(v)
  \/ Get(v) \/ GetAndDelete(v) \/ DeleteLosesAnswer(v)
  \/ VerifyFails(v)

----------------------------------------------------------------------------
Next ==
  \/ TimePasses
  \/ \E s \in Sends : SendOTP(s)
  \/ \E v \in Verifies : VerifyOTP(v)

Spec == Init /\ [][Next]_vars

----------------------------------------------------------------------------
(* Properties.                                                              *)

Answered(v) == verify[v].answer \in {"verified", "invalid", "notFound"}

\* Once a verification has been answered, "verified" or "invalid", the code it
\* was judged by is gone: no request that starts later is compared with it, so
\* a code is used up by one success or one wrong guess (GetAndDelete). The
\* exception is a code that was read between a SET and the client's repetition
\* of it, which puts it back; that code has not been mailed yet.
AnsweredCodeIsGone ==
  \A v \in Verifies : Answered(v) /\ ~verify[v].early =>
    \A e \in verify[v].read, x \in otp : x.id # e.id

\* "verified" is said only of the code that the key held when it was read, and
\* within its TTL, however late the answer is (SetWithTTL, GetAndDelete).
VerifiedInTime ==
  \A v \in Verifies : verify[v].answer = "verified" =>
    \E e \in verify[v].read :
      e.code = verify[v].code /\ verify[v].readAt < e.storedAt + Ttl

\* A code that was mailed can be verified until it expires: it is the key's
\* value, or a later SET replaced it, or a VerifyOTP took it away. A send
\* whose store failed mails nothing (SendOTP).
MailedCodeIsUsable ==
  \A s \in Sends : send[s].mailed =>
    \E e \in send[s].value :
      \/ e \in otp
      \/ now >= e.storedAt + Ttl
      \/ e.set + 1 < stores
      \/ e \in removed

\* The sends that were judged on the counter of day d and not refused.
Accepted(d) == {s \in Sends : send[s].day = d /\ send[s].answer # "refused"}

\* Requests that are counted at the same time do not get past the daily limit
\* together (IncrementOTPCount).
WithinDailyLimit == \A d \in Days : Cardinality(Accepted(d)) <= Limit

\* A caller is told "sent" only of what the log shows as sent, though the mail,
\* its row and the answer are three steps any of which may fail (SendOTP).
SuccessIsLogged ==
  \A s \in Sends : send[s].answer = "ok" => [send |-> s, status |-> "sent"] \in logs

\* redis.go: GetAndDelete "atomically retrieves and deletes a key ... to ensure
\* a code can only be used once". Two requests whose pipelines overlap both
\* read the code.
CodeIsUsedOnce ==
  \A v1, v2 \in Verifies :
    /\ verify[v1].answer = "verified"
    /\ verify[v2].answer = "verified"
    /\ \E e1 \in verify[v1].read, e2 \in verify[v2].read : e1.id = e2.id
    => v1 = v2

\* README.md: the free tier has "50 OTPs/day": a request is refused only when
\* that many were let through before it.
RefusedOnlyWhenUsedUp ==
  \A s \in Sends :
    send[s].answer = "refused" => Cardinality(Accepted(send[s].day)) >= Limit
=============================================================================
