-------------------------- MODULE SendPageProofs --------------------------
(***************************************************************************)
(* Theorems about SendPage, for every set of addresses.                    *)
(***************************************************************************)
EXTENDS SendPage, TLAPS, FiniteSetTheorems

(* What keeps the panels apart: a request in flight means that what it will  *)
(* show is not on the screen yet, and a verification that no Reset has       *)
(* overtaken finds the screen as it left it.                                 *)
ScreenInv ==
    /\ email.loading => ~email.error /\ ~email.result
    /\ ~(email.error /\ email.result)
    /\ \A c \in calls : c.kind # "send" => c.to # Nil
    /\ otp.verifying => otp.result = Nil /\ stray # "shown"
    /\ stray = "flying" => otp.verifying
    /\ (otp.verifying /\ stray = "no") => ~otp.error
    /\ stray # "shown" => ~(otp.error /\ otp.result # Nil)

IInv == TypeOK /\ BusyMeansCalls /\ VerifiedIsForThisSend /\ ScreenInv

----------------------------------------------------------------------------
LEMMA InitIInv == Init => IInv
BY DEF Init, IInv, TypeOK, BusyMeansCalls, VerifiedIsForThisSend, ScreenInv,
       NoEmail, NoOtp

\* The calls that can be in flight.
Calls == [ kind : Kinds, to : Addresses \cup {Nil}, nr : 1 .. MaxCalls ]

\* A request is one more call of its kind.
LEMMA OneMoreCall ==
  ASSUME NEW kind \in Kinds, NEW to \in Addresses \cup {Nil}, Request(kind, to)
  PROVE  \E new \in Calls : new.kind = kind /\ new.to = to /\ calls' = calls \cup {new}
<1>1. PICK n \in 1 .. MaxCalls :
        calls' = calls \cup { [ kind |-> kind, to |-> to, nr |-> n ] }
  BY DEF Request, FreeNumbers
<1> DEFINE new == [ kind |-> kind, to |-> to, nr |-> n ]
<1>2. new \in Calls /\ new.kind = kind /\ new.to = to
  BY DEF Calls
<1> QED
  BY <1>1, <1>2

\* What an answered call leaves of a table with one call of a kind at most.
LEMMA DropCall ==
  ASSUME NEW S, NEW c \in S, \A d, e \in S : d.kind = e.kind => d = e
  PROVE  /\ \A d, e \in S \ {c} : d.kind = e.kind => d = e
         /\ \A j : (\E d \in S \ {c} : d.kind = j)
                   <=> (j # c.kind /\ \E d \in S : d.kind = j)
OBVIOUS

\* The e-mail tab shares nothing with the passcode tab but the set of calls.
LEMMA EmailSteps ==
  ASSUME IInv,
         \/ \E b \in BOOLEAN : TypeEmail(b)
         \/ handleSendEmail
         \/ \E c \in calls, ok \in BOOLEAN : SendEmailAnswered(c, ok)
  PROVE  IInv'
<1> USE DEF IInv, TypeOK, BusyMeansCalls, VerifiedIsForThisSend, ScreenInv, Kinds
<1>1. ASSUME NEW b \in BOOLEAN, TypeEmail(b) PROVE IInv'
  BY <1>1 DEF TypeEmail, EmailInputs
<1>2. CASE handleSendEmail
  <2>1. \A c \in calls : c.kind # "send"
    BY <1>2 DEF handleSendEmail, SendTestEmail
  <2>2. PICK new \in Calls :
           new.kind = "send" /\ new.to = Nil /\ calls' = calls \cup {new}
    BY <1>2, OneMoreCall DEF handleSendEmail
  <2>3. /\ \A c, d \in calls' : c.kind = d.kind => c = d
        /\ \A j : (\E c \in calls' : c.kind = j)
                  <=> (j = "send" \/ \E c \in calls : c.kind = j)
        /\ \A c \in calls' : c \in calls \/ (c.kind = "send" /\ c.to = Nil)
    BY <2>1, <2>2
  <2>4. calls' \subseteq Calls
    BY <2>2 DEF Calls
  <2>5. TypeOK'
    BY <1>2, <2>4 DEF Calls, handleSendEmail, SendTestEmail
  <2>6. BusyMeansCalls'
    BY <1>2, <2>1, <2>3 DEF handleSendEmail, SendTestEmail
  <2>7. VerifiedIsForThisSend'
    BY <1>2, <2>3 DEF handleSendEmail, SendTestEmail
  <2>8. ScreenInv'
    BY <1>2, <2>3 DEF handleSendEmail, SendTestEmail
  <2> QED
    BY <2>5, <2>6, <2>7, <2>8 DEF IInv
<1>3. ASSUME NEW c \in calls, NEW ok \in BOOLEAN, SendEmailAnswered(c, ok)
      PROVE  IInv'
  <2>1. calls' = calls \ {c}
    BY <1>3 DEF SendEmailAnswered
  <2>2. /\ \A d, e \in calls' : d.kind = e.kind => d = e
        /\ \A j : (\E d \in calls' : d.kind = j)
                  <=> (j # c.kind /\ \E d \in calls : d.kind = j)
    BY <2>1, DropCall
  <2>3. TypeOK'
    BY <1>3, ZenonT(60) DEF SendEmailAnswered
  <2>4. BusyMeansCalls'
    BY <1>3, <2>1, <2>2 DEF SendEmailAnswered
  <2>5. VerifiedIsForThisSend'
    BY <1>3, <2>1, <2>2 DEF SendEmailAnswered
  <2>6. ScreenInv'
    BY <1>3, <2>1, <2>2 DEF SendEmailAnswered
  <2> QED
    BY <2>3, <2>4, <2>5, <2>6 DEF IInv
<1> QED
  BY <1>1, <1>2, <1>3

\* What the user does to the passcode tab.
LEMMA OtpUserSteps ==
  ASSUME IInv,
         \/ \E a \in Addresses \cup {Nil} : TypeAddress(a)
         \/ \E b \in BOOLEAN : TypeCode(b)
         \/ handleSendOtp
         \/ handleVerifyOtp
         \/ Reset
  PROVE  IInv'
<1> USE DEF IInv, TypeOK, BusyMeansCalls, VerifiedIsForThisSend, ScreenInv, Kinds
<1>1. ASSUME NEW a \in Addresses \cup {Nil}, TypeAddress(a) PROVE IInv'
  BY <1>1 DEF TypeAddress, AddressInput
<1>2. ASSUME NEW b \in BOOLEAN, TypeCode(b) PROVE IInv'
  BY <1>2 DEF TypeCode, CodeInput
<1>3. CASE handleSendOtp
  <2>1. \A c \in calls : c.kind # "sendOtp"
    BY <1>3 DEF handleSendOtp, SendCode, Cleared
  <2>2. PICK new \in Calls :
           new.kind = "sendOtp" /\ new.to = otp.to /\ calls' = calls \cup {new}
    BY <1>3, OneMoreCall DEF handleSendOtp
  <2>3. /\ \A c, d \in calls' : c.kind = d.kind => c = d
        /\ \A j : (\E c \in calls' : c.kind = j)
                  <=> (j = "sendOtp" \/ \E c \in calls : c.kind = j)
        /\ \A c \in calls' : c \in calls \/ (c.kind = "sendOtp" /\ c.to = otp.to)
    BY <2>1, <2>2
  <2>4. calls' \subseteq Calls
    BY <2>2 DEF Calls
  <2>5. TypeOK'
    BY <1>3, <2>4 DEF Calls, handleSendOtp, SendCode, Cleared
  <2>6. BusyMeansCalls'
    BY <1>3, <2>1, <2>3 DEF handleSendOtp, SendCode, Cleared
  <2>7. VerifiedIsForThisSend'
    BY <1>3, <2>3 DEF handleSendOtp, SendCode, Cleared
  <2>8. ScreenInv'
    BY <1>3, <2>3 DEF handleSendOtp, SendCode, Cleared
  <2> QED
    BY <2>5, <2>6, <2>7, <2>8 DEF IInv
<1>4. CASE handleVerifyOtp
  <2>1. \A c \in calls : c.kind # "verifyOtp"
    BY <1>4 DEF handleVerifyOtp, VerifyCode, Cleared
  <2>2. PICK new \in Calls :
           new.kind = "verifyOtp" /\ new.to = otp.to /\ calls' = calls \cup {new}
    BY <1>4, OneMoreCall DEF handleVerifyOtp
  <2>3. /\ \A c, d \in calls' : c.kind = d.kind => c = d
        /\ \A j : (\E c \in calls' : c.kind = j)
                  <=> (j = "verifyOtp" \/ \E c \in calls : c.kind = j)
        /\ \A c \in calls' : c \in calls \/ (c.kind = "verifyOtp" /\ c.to = otp.to)
    BY <2>1, <2>2
  <2>4. calls' \subseteq Calls
    BY <2>2 DEF Calls
  <2>5. TypeOK'
    BY <1>4, <2>4 DEF Calls, handleVerifyOtp, VerifyCode, Cleared
  <2>6. BusyMeansCalls'
    BY <1>4, <2>1, <2>3 DEF handleVerifyOtp, VerifyCode, Cleared
  <2>7. VerifiedIsForThisSend'
    BY <1>4, <2>3 DEF handleVerifyOtp, VerifyCode, Cleared
  <2>8. ScreenInv'
    BY <1>4, <2>3 DEF handleVerifyOtp, VerifyCode, Cleared
  <2> QED
    BY <2>5, <2>6, <2>7, <2>8 DEF IInv
<1>5. CASE Reset
  BY <1>5 DEF Reset, ResetButton
<1> QED
  BY <1>1, <1>2, <1>3, <1>4, <1>5

\* The answers to the passcode tab's requests.
LEMMA OtpAnswers ==
  ASSUME IInv, NEW c \in calls, NEW ok \in BOOLEAN,
         SendOtpAnswered(c, ok) \/ VerifyOtpAnswered(c, ok)
  PROVE  IInv'
<1> USE DEF IInv, TypeOK, BusyMeansCalls, VerifiedIsForThisSend, ScreenInv, Kinds
<1>1. CASE SendOtpAnswered(c, ok)
  <2>1. calls' = calls \ {c}
    BY <1>1 DEF SendOtpAnswered
  <2>2. /\ \A d, e \in calls' : d.kind = e.kind => d = e
        /\ \A j : (\E d \in calls' : d.kind = j)
                  <=> (j # c.kind /\ \E d \in calls : d.kind = j)
    BY <2>1, DropCall
  <2>3. TypeOK'
    BY <1>1, ZenonT(60) DEF SendOtpAnswered
  <2>4. BusyMeansCalls'
    BY <1>1, <2>1, <2>2 DEF SendOtpAnswered
  <2>5. VerifiedIsForThisSend'
    BY <1>1, <2>1, <2>2 DEF SendOtpAnswered
  <2>6. ScreenInv'
    BY <1>1, <2>1, <2>2 DEF SendOtpAnswered
  <2> QED
    BY <2>3, <2>4, <2>5, <2>6 DEF IInv
<1>2. CASE VerifyOtpAnswered(c, ok)
  <2>1. calls' = calls \ {c}
    BY <1>2 DEF VerifyOtpAnswered
  <2>2. /\ \A d, e \in calls' : d.kind = e.kind => d = e
        /\ \A j : (\E d \in calls' : d.kind = j)
                  <=> (j # c.kind /\ \E d \in calls : d.kind = j)
    BY <2>1, DropCall
  <2>3. TypeOK'
    BY <1>2, ZenonT(60) DEF VerifyOtpAnswered
  <2>4. BusyMeansCalls'
    BY <1>2, <2>1, <2>2 DEF VerifyOtpAnswered
  <2>5. VerifiedIsForThisSend'
    BY <1>2, <2>1, <2>2 DEF VerifyOtpAnswered
  <2>6. ScreenInv'
    BY <1>2, <2>1, <2>2 DEF VerifyOtpAnswered
  <2> QED
    BY <2>3, <2>4, <2>5, <2>6 DEF IInv
<1> QED
  BY <1>1, <1>2

LEMMA NextIInv == IInv /\ [Next]_vars => IInv'
<1> SUFFICES ASSUME IInv, [Next]_vars PROVE IInv'
  OBVIOUS
<1>1. CASE Revisit
  <2>1. Init'
    BY <1>1 DEF Revisit, Init
  <2> QED
    BY <2>1
       DEF Init, IInv, TypeOK, BusyMeansCalls, VerifiedIsForThisSend, ScreenInv,
           NoEmail, NoOtp
<1>2. ASSUME NEW t \in { "email", "otp" }, SelectTab(t) PROVE IInv'
  BY <1>2
     DEF SelectTab, IInv, TypeOK, BusyMeansCalls, VerifiedIsForThisSend, ScreenInv
<1>3. ASSUME NEW k \in Kinds, Settle(k) PROVE IInv'
  BY <1>3, EmailSteps, OtpAnswers DEF Settle
<1>4. CASE UNCHANGED vars
  BY <1>4
     DEF vars, IInv, TypeOK, BusyMeansCalls, VerifiedIsForThisSend, ScreenInv
<1> QED
  BY <1>1, <1>2, <1>3, <1>4, EmailSteps, OtpUserSteps DEF Next, OnPage

LEMMA Invariance == Spec => []IInv
BY InitIInv, NextIInv, PTL DEF Spec

----------------------------------------------------------------------------
\* Every variable keeps its type (send/page.tsx:27-42).
THEOREM TypeCorrect == Spec => []TypeOK
<1>1. IInv => TypeOK
  BY DEF IInv
<1> QED
  BY <1>1, Invariance, PTL

\* Of each of the three requests one is in flight at most, however many the page
\* could have in flight, and a spinner stands for it (send/page.tsx:50, 68, 85);
\* the address of a code that is being sent stays in the field.
THEOREM OneRequestOfAKind == Spec => []BusyMeansCalls
<1>1. IInv => BusyMeansCalls
  BY DEF IInv
<1> QED
  BY <1>1, Invariance, PTL

\* "OTP Verified" is said of the address the current code was sent to, unless a
\* Reset overtook the verification.
THEOREM VerifiedIsTrue == Spec => []VerifiedIsForThisSend
<1>1. IInv => VerifiedIsForThisSend
  BY DEF IInv
<1> QED
  BY <1>1, Invariance, PTL

\* A panel is shown alone.
LEMMA OneEmailPanel ==
  ASSUME IInv
  PROVE  \E p : EmailPanels = {p}
<1>1. CASE email.error
  <2>1. EmailPanels = {"error"}
    BY <1>1 DEF EmailPanels, IInv, ScreenInv
  <2> QED BY <2>1
<1>2. CASE email.result
  <2>1. EmailPanels = {"sent"}
    BY <1>2 DEF EmailPanels, IInv, ScreenInv
  <2> QED BY <2>1
<1>3. CASE ~email.error /\ ~email.result
  <2>1. EmailPanels = {"awaiting"}
    BY <1>3 DEF EmailPanels
  <2> QED BY <2>1
<1> QED
  BY <1>1, <1>2, <1>3

LEMMA OneOtpPanel ==
  ASSUME IInv, stray # "shown"
  PROVE  \E p : OtpPanels = {p}
<1>1. CASE otp.error
  <2>1. OtpPanels = {"error"}
    BY <1>1 DEF OtpPanels, IInv, ScreenInv
  <2> QED BY <2>1
<1>2. CASE ~otp.error /\ otp.result # Nil
  <2>1. otp.sent # Nil
    BY <1>2 DEF IInv, VerifiedIsForThisSend
  <2>2. OtpPanels = {"verified"}
    BY <1>2, <2>1 DEF OtpPanels
  <2> QED BY <2>2
<1>3. CASE ~otp.error /\ otp.result = Nil /\ otp.sent # Nil
  <2>1. OtpPanels = {"sent"}
    BY <1>3 DEF OtpPanels
  <2> QED BY <2>1
<1>4. CASE ~otp.error /\ otp.result = Nil /\ otp.sent = Nil
  <2>1. OtpPanels = {"awaiting"}
    BY <1>4 DEF OtpPanels
  <2> QED BY <2>1
<1> QED
  BY <1>1, <1>2, <1>3, <1>4

LEMMA OnePanel == IInv => PanelsAgree
BY OneEmailPanel, OneOtpPanel, FS_Singleton DEF PanelsAgree

\* Each tab shows exactly one panel, stray answers excepted.
THEOREM OnePanelAtATime == Spec => []PanelsAgree
BY OnePanel, Invariance, PTL
=============================================================================
