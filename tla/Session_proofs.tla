--------------------------- MODULE Session_proofs ----------------------------
(***************************************************************************)
(* Theorems about Session, for every value of its constants.               *)
(***************************************************************************)
EXTENDS Session, FiniteSetTheorems, TLAPS

Fields == {"pc", "cmd", "token", "user", "retry", "ran"}

\* What a call of each command goes through; a request has run only where its
\* answer is awaited.
CallOK(c) ==
  /\ DOMAIN c = Fields
  /\ c.pc = "idle" <=> c.cmd = "none"
  /\ c.cmd = "login" => c.pc \in {"login", "truncate", "write"}
  /\ c.cmd = "logout" => c.pc \in {"load", "revoke", "clear"}
  /\ c.cmd = "api" => c.pc \in {"load", "refresh", "truncate", "write", "request", "answer"}
  /\ c.cmd \in {"none", "api", "login", "logout"}
  /\ c.ran = 0 \/ (c.pc = "answer" /\ c.ran = 1)

CallsOK ==
  /\ DOMAIN calls = Terminals
  /\ \A t \in Terminals : CallOK(calls[t])

LEMMA CallsInit == Init => CallsOK
BY DEF Init, CallsOK, CallOK, Fields, Idle

\* A step changes one call.
LEMMA OneCall ==
  ASSUME CallsOK, NEW t \in Terminals, NEW c, CallOK(c), calls' = [calls EXCEPT ![t] = c]
  PROVE  CallsOK'
BY DEF CallsOK, CallOK

LEMMA IdleOK == CallOK(Idle)
BY DEF CallOK, Fields, Idle

LEMMA CallsNext == CallsOK /\ [Next]_vars => CallsOK'
<1> SUFFICES ASSUME CallsOK, [Next]_vars PROVE CallsOK'
  OBVIOUS
<1> USE DEF Step, At, Ends
<1>1. ASSUME NEW t \in Terminals, Goes(t) PROVE CallsOK'
  <2>1. CallOK(calls[t])
    BY DEF CallsOK
  <2>2. CASE Ends(t)
    BY <2>2, OneCall, IdleOK
  <2>3. CASE Load(t) /\ ~Ends(t)
    BY <2>1, <2>3 DEF Load, CallsOK, CallOK, Fields
  <2>4. CASE Refresh(t) /\ ~Ends(t)
    BY <2>1, <2>4 DEF Refresh, AfterRefresh, CallsOK, CallOK, Fields
  <2>5. CASE Truncate(t)
    BY <2>1, <2>5 DEF Truncate, CallsOK, CallOK, Fields
  <2>6. CASE Write(t) /\ ~Ends(t)
    BY <2>1, <2>6 DEF Write, CallsOK, CallOK, Fields
  <2>7. CASE RequestRuns(t)
    BY <2>1, <2>7 DEF RequestRuns, CallsOK, CallOK, Fields
  <2>8. CASE Refused(t) /\ ~Ends(t)
    BY <2>1, <2>8 DEF Refused, CallsOK, CallOK, Fields
  <2>9. CASE LoginSucceeds(t)
    BY <2>1, <2>9 DEF LoginSucceeds, CallsOK, CallOK, Fields
  <2>10. CASE Revokes(t)
    BY <2>1, <2>10 DEF Revokes, CallsOK, CallOK, Fields
  <2> QED
    BY <1>1, <2>2, <2>3, <2>4, <2>5, <2>6, <2>7, <2>8, <2>9, <2>10
       DEF Goes, RefreshFails, RequestFails, Answered, AnswerLost, AfterLoss, LoginFails, Clear
<1>2. ASSUME NEW t \in Terminals, ApiBegins(t) \/ LogoutBegins(t) \/ \E u \in Users : LoginBegins(t, u)
      PROVE  CallsOK'
  <2>1. PICK c : CallOK(c) /\ calls' = [calls EXCEPT ![t] = c]
    <3>1. CASE ApiBegins(t)
      BY <3>1, IdleOK DEF ApiBegins, CallOK, Fields, Idle
    <3>2. CASE LogoutBegins(t)
      BY <3>2, IdleOK DEF LogoutBegins, CallOK, Fields, Idle
    <3>3. CASE \E u \in Users : LoginBegins(t, u)
      BY <3>3, IdleOK DEF LoginBegins, CallOK, Fields, Idle
    <3> QED
      BY <1>2, <3>1, <3>2, <3>3
  <2> QED
    BY <2>1, OneCall
<1>3. CASE UNCHANGED calls
  BY <1>3 DEF CallsOK
<1> QED
  BY <1>1, <1>2, <1>3 DEF Next, Forgets, vars

LEMMA OthersStay ==
  ASSUME CallsOK, NEW x \in Terminals, Goes(x), NEW t \in Terminals, x # t
  PROVE  calls'[t] = calls[t]
<1> USE DEF CallsOK, Step, Ends
<1>1. CASE Load(x) \/ Refresh(x) \/ RefreshFails(x) \/ Truncate(x) \/ Write(x)
  BY <1>1 DEF Load, Refresh, RefreshFails, Truncate, Write
<1>2. CASE RequestRuns(x) \/ Refused(x) \/ RequestFails(x) \/ Answered(x) \/ AnswerLost(x)
  BY <1>2 DEF RequestRuns, Refused, RequestFails, Answered, AnswerLost, AfterLoss
<1>3. CASE LoginSucceeds(x) \/ LoginFails(x) \/ Revokes(x) \/ Clear(x)
  BY <1>3 DEF LoginSucceeds, LoginFails, Revokes, Clear
<1> QED
  BY <1>1, <1>2, <1>3 DEF Goes

LEMMA CallsInvariant == Spec => []CallsOK
BY CallsInit, CallsNext, PTL DEF Spec

\* One command has its effect on the server at most once: for any number of
\* terminals, and with a login or logout beside it, answers lost, access
\* tokens refused.
THEOREM EffectAtMostOnce == Spec => []RunsAtMostOnce
<1>1. CallsOK => RunsAtMostOnce
  BY DEF CallsOK, CallOK, RunsAtMostOnce
<1> QED
  BY <1>1, CallsInvariant, PTL

\* A logout that found a session ends by removing the file, whatever the
\* server answers and whatever the other terminals do.
THEOREM LogoutLeavesNoFile == Spec => LogoutClears
<1>1. ASSUME CallsOK, [Next]_vars, NEW t \in Terminals,
             calls[t].cmd = "logout", ~At(t, "load"), calls'[t] = Idle
      PROVE  file'.state = "none"
  <2>1. CallOK(calls[t]) /\ calls[t].pc \in {"revoke", "clear"} /\ calls'[t] # calls[t]
    BY <1>1 DEF CallsOK, CallOK, At, Idle
  <2>2. CASE \E x \in Terminals : Goes(x)
    <3>1. PICK x \in Terminals : Goes(x)
      BY <2>2
    <3>2. x = t
      <4> SUFFICES ASSUME x # t PROVE calls'[t] = calls[t]
        BY <2>1
      <4> QED
        BY <1>1, <3>1, OthersStay
    <3>3. Revokes(t) \/ Clear(t)
      BY <2>1, <3>1, <3>2
         DEF Goes, Load, Refresh, RefreshFails, Truncate, Write, RequestRuns, Refused, RequestFails,
             Answered, AnswerLost, LoginSucceeds, LoginFails, At
    <3>4. ~Revokes(t)
      <4>1. Revokes(t) => calls'[t].pc = "clear"
        BY <1>1, <2>1 DEF Revokes, Step, CallsOK, CallOK, Fields
      <4> QED
        BY <1>1, <4>1 DEF Idle
    <3> QED
      BY <3>3, <3>4 DEF Clear, NoFile
  <2>3. CASE ~\E x \in Terminals : Goes(x)
    BY <1>1, <2>1, <2>3 DEF Next, ApiBegins, LogoutBegins, LoginBegins, Forgets, vars, CallsOK, At
  <2> QED
    BY <2>2, <2>3
<1>2. CallsOK /\ [Next]_vars =>
        [\A t \in Terminals : calls[t].cmd = "logout" /\ ~At(t, "load") /\ calls'[t] = Idle
           => file'.state = "none"]_calls
  BY <1>1
<1> QED
  BY <1>2, CallsInvariant, PTL DEF Spec, LogoutClears

-----------------------------------------------------------------------------
(***************************************************************************)
(* The stored token.  A rotating server takes each token once, so that of  *)
(* the commands that loaded the same token only one gets a new one, and    *)
(* nobody may store what it loaded before.  The theorem holds without the  *)
(* two things that break it: a login or logout beside another command, and *)
(* a refresh whose answer is lost; and with a name for every token in use. *)
(***************************************************************************)
Sound        == Uses = {} /\ "refreshLost" \notin Faults
EnoughTokens == IsFiniteSet(Terminals) /\ MaxToken >= Cardinality(Terminals) + 3

SessionOf(t) == [token |-> calls[t].token, user |-> calls[t].user]
OfTheFile    == [token |-> file.token, user |-> file.user]
Storing      == {t \in Terminals : calls[t].pc \in {"truncate", "write"}}
Refreshing   == {t \in Terminals : At(t, "refresh") /\ SessionOf(t) \in live}

\* A login or a logout runs alone.
Alone ==
  \A t \in Terminals : calls[t].cmd \in {"login", "logout"} =>
    \A x \in Terminals \ {t} : At(x, "idle")

\* At most one session nobody has the file of, so that a token is free.
FewSessions ==
  /\ IsFiniteSet(live)
  /\ Cardinality(live) <= 2
  /\ (\E t \in Terminals : At(t, "login")) => Cardinality(live) <= 1

FileWorks ==
  \/ file.state = "none"
  \/ Storing # {}
  \/ \E t \in Terminals : calls[t].pc \in {"revoke", "clear"}
  \/ file.state = "whole" /\ OfTheFile \in live

\* Who stores a token stores one that the server takes; if it rotates, nobody
\* else then has one, and otherwise only the one of the file is refreshed.
OneChain ==
  /\ file.state \in {"none", "whole", "torn"}
  /\ \A t \in Storing : SessionOf(t) \in live
  /\ rotates => /\ \A t, x \in Storing : t = x
                /\ Storing # {} => Refreshing = {}
                /\ \A t \in Storing : calls[t].cmd = "api" /\ file.state = "whole" => OfTheFile \notin live
                /\ \A t \in Refreshing : file.state = "whole" /\ SessionOf(t) = OfTheFile

TokenInv == CallsOK /\ Alone /\ FewSessions /\ FileWorks /\ OneChain

\* A token is free where the server gives one away.
LEMMA FiniteImage ==
  ASSUME NEW S, IsFiniteSet(S), NEW f
  PROVE  /\ IsFiniteSet({f[x] : x \in S})
         /\ Cardinality({f[x] : x \in S}) <= Cardinality(S)
<1> DEFINE T == {f[x] : x \in S}
           g == [x \in S |-> f[x]]
<1>1. g \in Surjection(S, T)
  BY DEF Surjection
<1> QED
  BY <1>1, FS_Surjection

LEMMA FiniteUnion ==
  ASSUME NEW S, IsFiniteSet(S), NEW T, IsFiniteSet(T)
  PROVE  /\ IsFiniteSet(S \cup T)
         /\ Cardinality(S \cup T) <= Cardinality(S) + Cardinality(T)
<1>1. IsFiniteSet(S \cup T) /\ Cardinality(S \cup T) = Cardinality(S) + Cardinality(T) - Cardinality(S \cap T)
  BY FS_Union
<1>2. IsFiniteSet(S \cap T)
  BY FS_Subset
<1>3. Cardinality(S) \in Nat /\ Cardinality(T) \in Nat /\ Cardinality(S \cap T) \in Nat
  BY <1>2, FS_CardinalityType
<1> QED
  BY <1>1, <1>3

LEMMA FreeToken ==
  ASSUME NEW S, IsFiniteSet(S), Cardinality(S) < MaxToken
  PROVE  \E n \in Token : n \notin S
<1> SUFFICES ASSUME Token \subseteq S PROVE FALSE
  OBVIOUS
<1>1. Cardinality(Token) <= Cardinality(S)
  BY FS_Subset
<1>2. Cardinality(Token) = MaxToken
  BY FS_Interval, ConstantsAssumption DEF Token
<1>3. Cardinality(S) \in Nat
  BY FS_CardinalityType
<1> QED
  BY <1>1, <1>2, <1>3, ConstantsAssumption

LEMMA NewIsNew ==
  ASSUME EnoughTokens, FewSessions, NEW t \in Terminals,
         At(t, "login") \/ (At(t, "refresh") /\ SessionOf(t) \in live)
  PROVE  New \in Token /\ New \notin InUse
<1> DEFINE sessions == [s \in live |-> s.token]
           tokens   == [x \in Terminals |-> calls[x].token]
           L        == {sessions[s] : s \in live}
           C        == {tokens[x] : x \in Terminals}
           D        == {tokens[x] : x \in Terminals \ {t}}
           F        == {file.token}
<1>1. IsFiniteSet(L) /\ Cardinality(L) <= Cardinality(live) /\ Cardinality(live) \in Nat /\ Cardinality(L) \in Nat
  BY FiniteImage, FS_CardinalityType DEF FewSessions
<1>2. /\ IsFiniteSet(C) /\ Cardinality(C) \in Nat /\ Cardinality(C) <= Cardinality(Terminals)
      /\ Cardinality(Terminals) \in Nat
  BY FiniteImage, FS_CardinalityType DEF EnoughTokens
<1>3. IsFiniteSet(D) /\ Cardinality(D) \in Nat /\ Cardinality(D) <= Cardinality(Terminals) - 1
  <2>1. IsFiniteSet(Terminals \ {t}) /\ Cardinality(Terminals \ {t}) = Cardinality(Terminals) - 1
    BY FS_RemoveElement DEF EnoughTokens
  <2>2. IsFiniteSet(D) /\ Cardinality(D) <= Cardinality(Terminals \ {t})
    BY <2>1, FiniteImage
  <2> QED
    BY <2>1, <2>2, FS_CardinalityType
<1>4. IsFiniteSet(F) /\ Cardinality(F) = 1
  BY FS_Singleton
<1>5. InUse = (L \cup F) \cup C
  BY DEF InUse
<1>6. IsFiniteSet(L \cup F) /\ Cardinality(L \cup F) <= Cardinality(L) + 1 /\ Cardinality(L \cup F) \in Nat
  BY <1>1, <1>4, FiniteUnion, FS_CardinalityType
<1> HIDE DEF L, F, C, D
<1>7. IsFiniteSet(InUse) /\ Cardinality(InUse) < MaxToken
  <2>1. CASE At(t, "login")
    <3>1. Cardinality(live) <= 1
      BY <2>1 DEF FewSessions
    <3>2. IsFiniteSet(InUse) /\ Cardinality(InUse) <= Cardinality(L \cup F) + Cardinality(C)
      BY <1>2, <1>5, <1>6, FiniteUnion
    <3>3. Cardinality(InUse) \in Nat
      BY <3>2, FS_CardinalityType
    <3> QED
      BY <1>1, <1>2, <1>6, <3>1, <3>2, <3>3, ConstantsAssumption DEF EnoughTokens
  <2>2. CASE SessionOf(t) \in live
    <3>1. calls[t].token \in L
      BY <2>2 DEF L, SessionOf
    <3>2. InUse = (L \cup F) \cup D
      BY <1>5, <3>1 DEF C, D
    <3>3. IsFiniteSet(InUse) /\ Cardinality(InUse) <= Cardinality(L \cup F) + Cardinality(D)
      BY <1>3, <1>6, <3>2, FiniteUnion
    <3>4. Cardinality(InUse) \in Nat /\ Cardinality(live) <= 2
      BY <3>3, FS_CardinalityType DEF FewSessions
    <3> QED
      BY <1>1, <1>2, <1>3, <1>6, <3>3, <3>4, ConstantsAssumption DEF EnoughTokens
  <2> QED
    BY <2>1, <2>2
<1> QED
  BY <1>7, FreeToken DEF New

\* What a step of t leaves alone, and what it makes of the two sets.
LEMMA StepOf ==
  ASSUME CallsOK, NEW t \in Terminals, NEW c, calls' = [calls EXCEPT ![t] = c]
  PROVE  /\ calls'[t] = c
         /\ \A x \in Terminals \ {t} : calls'[x] = calls[x] /\ SessionOf(x)' = SessionOf(x)
         /\ Storing' = IF c.pc \in {"truncate", "write"} THEN Storing \cup {t} ELSE Storing \ {t}
BY DEF CallsOK, Storing, SessionOf

LEMMA AloneNext == ASSUME Sound, CallsOK, CallsOK', Alone, [Next]_vars PROVE Alone'
<1>1. ASSUME NEW t \in Terminals, Goes(t) PROVE Alone'
  <2>1. \A x \in Terminals \ {t} : calls'[x] = calls[x]
    BY <1>1, OthersStay
  <2>2. ~At(t, "idle")
    BY <1>1 DEF Goes, Load, Refresh, RefreshFails, Truncate, Write, RequestRuns, Refused, RequestFails,
                Answered, AnswerLost, LoginSucceeds, LoginFails, Revokes, Clear, At
  <2>3. calls'[t] = Idle \/ calls'[t].cmd = calls[t].cmd
    <3> USE DEF CallsOK, CallOK, Fields, Step, Ends
    <3>1. CASE Load(t) \/ Refresh(t)
      BY <3>1 DEF Load, Refresh
    <3>2. CASE RefreshFails(t) \/ Truncate(t)
      BY <3>2 DEF RefreshFails, Truncate
    <3>5. CASE Write(t)
      BY <3>5 DEF Write
    <3>3. CASE RequestRuns(t) \/ Refused(t) \/ RequestFails(t) \/ Answered(t) \/ AnswerLost(t)
      BY <3>3 DEF RequestRuns, Refused, RequestFails, Answered, AnswerLost, AfterLoss
    <3>4. CASE LoginSucceeds(t) \/ LoginFails(t)
      BY <3>4 DEF LoginSucceeds, LoginFails
    <3>6. CASE Revokes(t) \/ Clear(t)
      BY <3>6 DEF Revokes, Clear
    <3> QED
      BY <1>1, <3>1, <3>2, <3>3, <3>4, <3>5, <3>6 DEF Goes
  <2> QED
    BY <2>1, <2>2, <2>3 DEF Alone, At, Idle
<1>2. ASSUME NEW t \in Terminals, ApiBegins(t) \/ LogoutBegins(t) \/ \E u \in Users : LoginBegins(t, u)
      PROVE  Alone'
  <2>1. PICK c : calls' = [calls EXCEPT ![t] = c]
    BY <1>2 DEF ApiBegins, LogoutBegins, LoginBegins
  <2>2. calls'[t] = c /\ \A x \in Terminals \ {t} : calls'[x] = calls[x]
    BY <2>1 DEF CallsOK
  <2>3. CASE AllIdle
    BY <2>2, <2>3 DEF Alone, AllIdle, At, CallsOK, CallOK
  <2>4. CASE ApiBegins(t) /\ \A x \in Terminals : calls[x].cmd \in {"none", "api"}
    <3>1. calls'[t].cmd = "api"
      BY <2>4 DEF ApiBegins, CallsOK, Idle
    <3> QED
      BY <2>2, <2>4, <3>1 DEF Alone
  <2> QED
    BY <1>2, <2>3, <2>4 DEF ApiBegins, LogoutBegins, LoginBegins, MayStart, Sound
<1>3. CASE UNCHANGED calls
  BY <1>3 DEF Alone, At
<1> QED
  BY <1>1, <1>2, <1>3 DEF Next, Forgets, vars

\* What the steps below assume and keep.
Kept == FewSessions' /\ FileWorks' /\ OneChain'

\* The steps that neither store nor touch a session: the call moves on to a
\* point where it holds none, or ends.
LEMMA Elsewhere ==
  ASSUME TokenInv, NEW t \in Terminals, NEW c, calls' = [calls EXCEPT ![t] = c],
         UNCHANGED <<rotates, live, file>>,
         c.pc \notin {"truncate", "write", "refresh"},
         calls[t].pc \notin {"truncate", "write", "revoke", "clear"},
         c.pc = "login" => Cardinality(live) <= 1
  PROVE  Kept
<1>1. CallsOK /\ Storing' = Storing /\ OfTheFile' = OfTheFile
  BY StepOf DEF TokenInv, Storing, OfTheFile
<1>2. calls'[t] = c /\ \A x \in Terminals \ {t} : calls'[x] = calls[x] /\ SessionOf(x)' = SessionOf(x)
  BY <1>1, StepOf
<1>3. \A x \in Storing : x # t
  BY DEF Storing
<1>4. Refreshing' = Refreshing \ {t}
  BY <1>2 DEF Refreshing, At
<1>5. FewSessions'
  BY <1>2 DEF TokenInv, FewSessions, At
<1>6. FileWorks'
  BY <1>1, <1>2 DEF TokenInv, FileWorks
<1>7. OneChain'
  <2>1. \A x \in Storing : SessionOf(x)' = SessionOf(x) /\ calls'[x] = calls[x]
    BY <1>2, <1>3 DEF Storing
  <2>2. \A x \in Refreshing' : x \in Refreshing /\ SessionOf(x)' = SessionOf(x)
    BY <1>2, <1>4 DEF Refreshing
  <2> QED
    BY <1>1, <1>4, <2>1, <2>2 DEF TokenInv, OneChain
<1> QED
  BY <1>5, <1>6, <1>7 DEF Kept

LEMMA KeptByLoad == ASSUME TokenInv, NEW t \in Terminals, Load(t), ~Ends(t) PROVE Kept
<1>1. PICK c : /\ calls' = [calls EXCEPT ![t] = c]
               /\ c.pc = (IF calls[t].cmd = "logout" THEN "revoke" ELSE "refresh")
               /\ c.token = file.token /\ c.user = file.user
  <2> DEFINE c == [calls[t] EXCEPT !.pc = IF @ = "load" /\ calls[t].cmd = "logout" THEN "revoke" ELSE "refresh",
                                   !.token = file.token, !.user = file.user]
  <2>1. calls' = [calls EXCEPT ![t] = c]
    BY DEF Load
  <2>2. /\ c.pc = (IF calls[t].cmd = "logout" THEN "revoke" ELSE "refresh")
        /\ c.token = file.token /\ c.user = file.user
    BY DEF Load, At, TokenInv, CallsOK, CallOK, Fields
  <2> QED
    BY <2>1, <2>2
<1>2. UNCHANGED <<rotates, live, file>> /\ file.state = "whole" /\ calls[t].pc = "load"
  BY DEF Load, At
<1>3. CallsOK /\ Storing' = Storing /\ OfTheFile' = OfTheFile
  BY <1>1, <1>2, StepOf DEF TokenInv, Storing, OfTheFile
<1>4. calls'[t] = c /\ \A x \in Terminals \ {t} : calls'[x] = calls[x] /\ SessionOf(x)' = SessionOf(x)
  BY <1>1, <1>3, StepOf
<1>5. SessionOf(t)' = OfTheFile
  BY <1>1, <1>4 DEF SessionOf, OfTheFile
<1>6. FewSessions'
  BY <1>1, <1>2, <1>4 DEF TokenInv, FewSessions, At
<1>7. FileWorks'
  BY <1>1, <1>2, <1>3, <1>4 DEF TokenInv, FileWorks
<1>8. OneChain'
  <2>1. \A x \in Storing : x # t /\ SessionOf(x)' = SessionOf(x) /\ calls'[x] = calls[x]
    BY <1>2, <1>4 DEF Storing
  <2>2. \A x \in Refreshing' : \/ x = t /\ SessionOf(x)' = OfTheFile /\ OfTheFile \in live
                               \/ x \in Refreshing /\ SessionOf(x)' = SessionOf(x)
    BY <1>2, <1>4, <1>5 DEF Refreshing, At
  <2>3. rotates /\ Storing # {} => Refreshing' = {}
    <3> SUFFICES ASSUME rotates, NEW s \in Storing PROVE Refreshing' = {}
      OBVIOUS
    <3>1. calls[s].cmd = "api"
      BY <1>2, <1>3, <2>1 DEF TokenInv, Alone, At, CallsOK, CallOK, Storing
    <3>2. OfTheFile \notin live /\ Refreshing = {}
      BY <1>2, <3>1 DEF TokenInv, OneChain
    <3> QED
      BY <2>2, <3>2
  <2>4. rotates => \A x \in Refreshing' : file.state = "whole" /\ SessionOf(x)' = OfTheFile
    BY <1>2, <2>2 DEF TokenInv, OneChain
  <2> QED
    BY <1>2, <1>3, <2>1, <2>3, <2>4 DEF TokenInv, OneChain
<1> QED
  BY <1>6, <1>7, <1>8 DEF Kept

\* The server takes the token and, if it rotates, gives a new one.
LEMMA KeptByRefresh ==
  ASSUME EnoughTokens, TokenInv, NEW t \in Terminals, Refresh(t), SessionOf(t) \in live
  PROVE  Kept
<1> DEFINE old == SessionOf(t)
           new == IF rotates THEN [old EXCEPT !.token = New] ELSE old
<1>1. live' = (live \ {old}) \cup {new} /\ UNCHANGED <<rotates, file>> /\ calls[t].pc = "refresh"
  BY DEF Refresh, SessionOf, At
<1>2. PICK c : calls' = [calls EXCEPT ![t] = c] /\ c.pc = "truncate" /\ c.token = new.token
               /\ c.user = old.user /\ c.cmd = calls[t].cmd
  <2> DEFINE c == [calls[t] EXCEPT !.pc = "truncate", !.token = new.token]
  <2>1. calls' = [calls EXCEPT ![t] = c]
    BY DEF Refresh, SessionOf, AfterRefresh
  <2>2. c.pc = "truncate" /\ c.token = new.token /\ c.user = old.user /\ c.cmd = calls[t].cmd
    BY DEF TokenInv, CallsOK, CallOK, Fields, SessionOf
  <2> QED
    BY <2>1, <2>2
<1>3. CallsOK /\ Storing' = Storing \cup {t} /\ OfTheFile' = OfTheFile /\ t \notin Storing
  BY <1>1, <1>2, StepOf DEF TokenInv, Storing, OfTheFile
<1>4. calls'[t] = c /\ \A x \in Terminals \ {t} : calls'[x] = calls[x] /\ SessionOf(x)' = SessionOf(x)
  BY <1>2, <1>3, StepOf
<1>5. SessionOf(t)' = new /\ (rotates => new.token = New)
  BY <1>2, <1>4 DEF SessionOf
<1>6. FewSessions'
  <2>1. calls'[t].pc # "login" /\ \A x \in Terminals : At(x, "login")' => At(x, "login")
    BY <1>2, <1>4 DEF At
  <2>2. IsFiniteSet(live \ {old}) /\ Cardinality(live \ {old}) = Cardinality(live) - 1 /\ Cardinality(live) \in Nat
    BY FS_RemoveElement, FS_CardinalityType DEF TokenInv, FewSessions
  <2>3. IsFiniteSet(live') /\ Cardinality(live') <= Cardinality(live)
    <3>1. /\ IsFiniteSet((live \ {old}) \cup {new})
          /\ Cardinality((live \ {old}) \cup {new}) \in {Cardinality(live \ {old}), Cardinality(live \ {old}) + 1}
      BY <2>2, FS_AddElement
    <3> QED
      BY <1>1, <2>2, <3>1
  <2>4. Cardinality(live') \in Nat
    BY <2>3, FS_CardinalityType
  <2> QED
    BY <2>1, <2>2, <2>3, <2>4 DEF TokenInv, FewSessions
<1>7. FileWorks'
  BY <1>3 DEF FileWorks
<1>8. CASE ~rotates
  <2>1. live' = live
    BY <1>1, <1>8
  <2>2. \A x \in Storing : SessionOf(x)' = SessionOf(x)
    BY <1>3, <1>4 DEF Storing
  <2> QED
    BY <1>1, <1>3, <1>5, <1>6, <1>7, <1>8, <2>1, <2>2 DEF TokenInv, OneChain, Kept
<1>9. CASE rotates
  <2>1. New \notin InUse
    BY <1>1, NewIsNew DEF TokenInv, At
  <2>2. Storing = {}
    BY <1>1, <1>9 DEF TokenInv, OneChain, Refreshing, At
  <2>3. file.state = "whole" /\ old = OfTheFile /\ \A x \in Refreshing : SessionOf(x) = old
    BY <1>1, <1>9 DEF TokenInv, OneChain, Refreshing, At
  <2>4. new # old /\ new # OfTheFile /\ \A x \in Terminals : SessionOf(x) # new
    BY <1>5, <1>9, <2>1 DEF InUse, SessionOf, OfTheFile
  <2>5. Refreshing' = {}
    BY <1>1, <1>2, <1>4, <2>3, <2>4 DEF Refreshing, At
  <2>6. Storing' = {t} /\ OfTheFile' \notin live' /\ SessionOf(t)' \in live'
    BY <1>1, <1>3, <1>5, <2>2, <2>3, <2>4
  <2>7. OneChain'
    BY <1>1, <2>3, <2>5, <2>6 DEF OneChain
  <2> QED
    BY <1>6, <1>7, <2>7 DEF Kept
<1> QED
  BY <1>8, <1>9

LEMMA KeptByTruncate == ASSUME TokenInv, NEW t \in Terminals, Truncate(t) PROVE Kept
<1>1. PICK c : calls' = [calls EXCEPT ![t] = c] /\ c = [calls[t] EXCEPT !.pc = "write"]
  BY DEF Truncate, Step
<1>2. /\ CallsOK /\ t \in Storing /\ UNCHANGED <<rotates, live>> /\ file'.state = "torn"
      /\ c.pc = "write" /\ c.token = calls[t].token /\ c.user = calls[t].user /\ c.cmd = calls[t].cmd
  BY <1>1 DEF Truncate, At, Storing, Torn, NoFile, TokenInv, CallsOK, CallOK, Fields
<1>3. Storing' = Storing
  <2>1. Storing' = Storing \cup {t}
    BY <1>1, <1>2, StepOf
  <2> QED
    BY <1>2, <2>1
<1>4. calls'[t] = c /\ \A x \in Terminals \ {t} : calls'[x] = calls[x] /\ SessionOf(x)' = SessionOf(x)
  BY <1>1, <1>2, StepOf
<1>5. \A x \in Storing : SessionOf(x)' = SessionOf(x) /\ calls'[x].cmd = calls[x].cmd
  BY <1>2, <1>4 DEF SessionOf, Storing
<1>6. rotates => Refreshing' = {}
  BY <1>2, <1>4 DEF TokenInv, OneChain, Refreshing, At
<1>7. FewSessions'
  BY <1>2, <1>4 DEF TokenInv, FewSessions, At
<1>8. FileWorks'
  BY <1>2, <1>3 DEF FileWorks
<1>9. OneChain'
  BY <1>2, <1>3, <1>5, <1>6 DEF TokenInv, OneChain
<1> QED
  BY <1>7, <1>8, <1>9 DEF Kept

LEMMA KeptByWrite == ASSUME TokenInv, NEW t \in Terminals, Write(t) PROVE Kept
<1>1. PICK c : calls' = [calls EXCEPT ![t] = c] /\ (c = Idle \/ c = [calls[t] EXCEPT !.pc = "request"])
  BY DEF Write, Step, Ends
<1>2. /\ CallsOK /\ t \in Storing /\ UNCHANGED <<rotates, live>>
      /\ file'.state = "whole" /\ OfTheFile' = SessionOf(t)
  BY DEF Write, At, Storing, Stored, OfTheFile, SessionOf, TokenInv
<1>3. c.pc \in {"idle", "request"}
  BY <1>1 DEF Idle, TokenInv, CallsOK, CallOK, Fields
<1>4. Storing' = Storing \ {t}
  BY <1>1, <1>2, <1>3, StepOf
<1>5. calls'[t] = c /\ \A x \in Terminals \ {t} : calls'[x] = calls[x] /\ SessionOf(x)' = SessionOf(x)
  BY <1>1, <1>2, StepOf
<1>6. FewSessions'
  BY <1>2, <1>3, <1>5 DEF TokenInv, FewSessions, At
<1>7. FileWorks'
  BY <1>2 DEF TokenInv, OneChain, FileWorks
<1>8. OneChain'
  <2>1. \A x \in Storing' : x \in Storing /\ SessionOf(x)' = SessionOf(x)
    BY <1>4, <1>5 DEF Storing
  <2>2. rotates => Storing' = {} /\ Refreshing' = {}
    BY <1>2, <1>3, <1>4, <1>5 DEF TokenInv, OneChain, Refreshing, At
  <2> QED
    BY <1>2, <2>1, <2>2 DEF TokenInv, OneChain
<1> QED
  BY <1>6, <1>7, <1>8 DEF Kept

\* A login and a logout are alone: nobody else stores or refreshes.
LEMMA NobodyElse ==
  ASSUME TokenInv, NEW t \in Terminals, calls[t].pc \in {"login", "revoke", "clear"}
  PROVE  CallsOK /\ Storing = {} /\ Refreshing = {} /\ \A x \in Terminals \ {t} : At(x, "idle")
BY DEF TokenInv, CallsOK, CallOK, Alone, Storing, Refreshing, At

LEMMA KeptByLogin == ASSUME EnoughTokens, TokenInv, NEW t \in Terminals, LoginSucceeds(t) PROVE Kept
<1>1. PICK c : calls' = [calls EXCEPT ![t] = c] /\ c = [calls[t] EXCEPT !.pc = "truncate", !.token = New]
  BY DEF LoginSucceeds
<1>2. /\ CallsOK /\ At(t, "login") /\ UNCHANGED <<rotates, file>> /\ calls[t].cmd = "login"
      /\ c.pc = "truncate" /\ c.token = New /\ c.user = calls[t].user /\ c.cmd = "login"
  BY <1>1 DEF LoginSucceeds, At, TokenInv, CallsOK, CallOK, Fields
<1>3. Storing = {} /\ \A x \in Terminals \ {t} : At(x, "idle")
  BY <1>2, NobodyElse DEF At
<1>4. Storing' = {t}
  BY <1>1, <1>2, <1>3, StepOf
<1>5. calls'[t] = c /\ \A x \in Terminals \ {t} : calls'[x] = calls[x]
  BY <1>1, <1>2, StepOf
<1>6. Refreshing' = {}
  BY <1>2, <1>3, <1>5 DEF Refreshing, At
<1>7. SessionOf(t)' \in live'
  <2>1. SessionOf(t)' = [token |-> New, user |-> calls[t].user]
    BY <1>2, <1>5 DEF SessionOf
  <2> QED
    BY <2>1 DEF LoginSucceeds
<1>8. FewSessions'
  <2>1. IsFiniteSet(live) /\ Cardinality(live) <= 1 /\ Cardinality(live) \in Nat
    BY <1>2, FS_CardinalityType DEF TokenInv, FewSessions
  <2>2. PICK s : live' = live \cup {s}
    BY DEF LoginSucceeds
  <2>4. IsFiniteSet(live') /\ Cardinality(live') <= 2
    <3>1. IsFiniteSet(live \cup {s}) /\ Cardinality(live \cup {s}) \in {Cardinality(live), Cardinality(live) + 1}
      BY <2>1, FS_AddElement
    <3> QED
      BY <2>1, <2>2, <3>1
  <2>3. \A x \in Terminals : ~At(x, "login")'
    BY <1>2, <1>3, <1>5 DEF At
  <2> QED
    BY <2>4, <2>3 DEF FewSessions
<1>9. FileWorks'
  BY <1>4 DEF FileWorks
<1>10. OneChain'
  <2>1. calls'[t].cmd = "login"
    BY <1>2, <1>5
  <2> QED
    BY <1>2, <1>4, <1>6, <1>7, <2>1 DEF TokenInv, OneChain
<1> QED
  BY <1>8, <1>9, <1>10 DEF Kept

LEMMA KeptByLogout == ASSUME TokenInv, NEW t \in Terminals, Revokes(t) \/ Clear(t) PROVE Kept
<1>1. PICK c : calls' = [calls EXCEPT ![t] = c] /\ c.pc = (IF Clear(t) THEN "idle" ELSE "clear")
  <2> DEFINE c == IF Clear(t) THEN Idle ELSE [calls[t] EXCEPT !.pc = "clear"]
  <2>1. calls' = [calls EXCEPT ![t] = c]
    BY DEF Revokes, Clear, Step, Ends
  <2>2. c.pc = (IF Clear(t) THEN "idle" ELSE "clear")
    BY DEF Idle, TokenInv, CallsOK, CallOK, Fields
  <2> QED
    BY <2>1, <2>2
<1>2. calls[t].pc \in {"revoke", "clear"} /\ UNCHANGED rotates /\ live' \subseteq live
  BY DEF Revokes, Clear, At
<1>3. CallsOK /\ Storing = {} /\ \A x \in Terminals \ {t} : At(x, "idle")
  BY <1>2, NobodyElse
<1>4. Storing' = {}
  BY <1>1, <1>3, StepOf
<1>5. calls'[t] = c /\ \A x \in Terminals \ {t} : calls'[x] = calls[x]
  BY <1>1, <1>3, StepOf
<1>6. Refreshing' = {} /\ \A x \in Terminals : ~At(x, "login")'
  BY <1>1, <1>3, <1>5 DEF Refreshing, At
<1>7. FewSessions'
  <2>1. IsFiniteSet(live) /\ Cardinality(live) <= 2 /\ Cardinality(live) \in Nat
    BY FS_CardinalityType DEF TokenInv, FewSessions
  <2>2. IsFiniteSet(live') /\ Cardinality(live') <= Cardinality(live)
    BY <1>2, <2>1, FS_Subset
  <2>3. Cardinality(live') \in Nat
    BY <2>2, FS_CardinalityType
  <2> QED
    BY <1>6, <2>1, <2>2, <2>3 DEF FewSessions
<1>8. file'.state = "none" \/ (calls'[t].pc = "clear" /\ file' = file)
  <2>1. NoFile.state = "none"
    BY DEF NoFile
  <2>2. CASE Clear(t)
    BY <2>1, <2>2 DEF Clear
  <2>3. CASE Revokes(t) /\ ~Clear(t)
    BY <1>1, <1>5, <2>3 DEF Revokes
  <2> QED
    BY <2>2, <2>3
<1>9. FileWorks'
  BY <1>8 DEF FileWorks
<1>10. OneChain'
  BY <1>4, <1>6, <1>8 DEF TokenInv, OneChain
<1> QED
  BY <1>7, <1>9, <1>10 DEF Kept

LEMMA KeptByForgetting == ASSUME TokenInv, NEW s \in Session, Forgets(s) PROVE Kept
<1>1. live' = live \ {s} /\ UNCHANGED <<rotates, file, calls>> /\ \A t \in Terminals : calls[t].pc = "idle"
  BY DEF Forgets, AllIdle, At
<1>2. Storing = {} /\ Storing' = {} /\ Refreshing' = {} /\ OfTheFile' = OfTheFile
  BY <1>1 DEF Storing, Refreshing, OfTheFile, At
<1>3. FewSessions'
  <2>1. IsFiniteSet(live) /\ Cardinality(live) <= 2 /\ Cardinality(live) \in Nat
    BY FS_CardinalityType DEF TokenInv, FewSessions
  <2>2. IsFiniteSet(live') /\ Cardinality(live') <= Cardinality(live)
    BY <1>1, <2>1, FS_Subset
  <2>3. Cardinality(live') \in Nat
    BY <2>2, FS_CardinalityType
  <2> QED
    BY <1>1, <2>1, <2>2, <2>3 DEF FewSessions, At
<1>4. FileWorks'
  <2>1. file.state = "none" \/ (file.state = "whole" /\ OfTheFile \in live)
    <3>1. FileWorks /\ Storing = {} /\ \A t \in Terminals : calls[t].pc \notin {"revoke", "clear"}
      BY <1>1, <1>2 DEF TokenInv
    <3> QED
      BY <3>1 DEF FileWorks
  <2>2. file.state = "whole" => OfTheFile # s
    BY DEF Forgets, OfFile, OfTheFile, NoFile, Torn
  <2> QED
    BY <1>1, <1>2, <2>1, <2>2 DEF FileWorks
<1>5. OneChain'
  BY <1>1, <1>2 DEF TokenInv, OneChain
<1> QED
  BY <1>3, <1>4, <1>5 DEF Kept

LEMMA TokenInit == Init => TokenInv
<1> SUFFICES ASSUME Init PROVE TokenInv
  OBVIOUS
<1>1. CallsOK /\ \A t \in Terminals : calls[t].pc = "idle" /\ calls[t].cmd = "none"
  BY CallsInit DEF Init, Idle
<1>2. live = {} /\ file.state = "none" /\ Storing = {} /\ Refreshing = {}
  BY <1>1 DEF Init, NoFile, Storing, Refreshing
<1> QED
  BY <1>1, <1>2, FS_EmptySet DEF TokenInv, Alone, FewSessions, FileWorks, OneChain, At

LEMMA TokenNext == Sound /\ EnoughTokens /\ TokenInv /\ [Next]_vars => TokenInv'
<1> SUFFICES ASSUME Sound, EnoughTokens, TokenInv, [Next]_vars PROVE TokenInv'
  OBVIOUS
<1>1. CallsOK /\ CallsOK'
  BY CallsNext DEF TokenInv
<1>2. Alone'
  BY <1>1, AloneNext DEF TokenInv
<1> USE DEF Step, At, Ends
<1>3. ASSUME NEW t \in Terminals, Ends(t), UNCHANGED <<rotates, live, file>>,
             calls[t].pc \notin {"truncate", "write", "revoke", "clear"}
      PROVE  Kept
  BY <1>3, Elsewhere DEF Idle
<1>4. ASSUME NEW t \in Terminals, Goes(t) PROVE Kept
  <2>1. CASE Load(t)
    BY <1>3, <2>1, KeptByLoad DEF Load
  <2>2. CASE Refresh(t)
    BY <1>3, <2>2, KeptByRefresh DEF Refresh, SessionOf
  <2>3. CASE RefreshFails(t)
    <3>1. UNCHANGED live
      BY <2>3 DEF RefreshFails, Sound
    <3> QED
      BY <1>3, <2>3, <3>1 DEF RefreshFails
  <2>4. CASE Truncate(t) \/ Write(t)
    BY <2>4, KeptByTruncate, KeptByWrite
  <2>5. CASE RequestRuns(t) \/ (Refused(t) /\ ~Ends(t))
    <3>1. PICK c : calls' = [calls EXCEPT ![t] = c] /\ c.pc \in {"answer", "load"}
      BY <1>1, <2>5 DEF RequestRuns, Refused, CallsOK, CallOK, Fields
    <3> QED
      BY <2>5, <3>1, Elsewhere DEF RequestRuns, Refused
  <2>6. CASE (Refused(t) /\ Ends(t)) \/ RequestFails(t) \/ Answered(t) \/ AnswerLost(t) \/ LoginFails(t)
    BY <1>3, <2>6 DEF Refused, RequestFails, Answered, AnswerLost, AfterLoss, LoginFails
  <2>7. CASE LoginSucceeds(t) \/ Revokes(t) \/ Clear(t)
    BY <2>7, KeptByLogin, KeptByLogout
  <2> QED
    BY <1>4, <2>1, <2>2, <2>3, <2>4, <2>5, <2>6, <2>7 DEF Goes
<1>5. ASSUME NEW t \in Terminals, ApiBegins(t) \/ LogoutBegins(t) PROVE Kept
  <2>1. PICK c : calls' = [calls EXCEPT ![t] = c] /\ c.pc = "load"
    <3>1. CASE ApiBegins(t)
      <4>1. [Idle EXCEPT !.pc = "load", !.cmd = "api"].pc = "load"
        BY DEF Idle
      <4> QED
        BY <3>1, <4>1 DEF ApiBegins
    <3>2. CASE LogoutBegins(t)
      <4>1. [Idle EXCEPT !.pc = "load", !.cmd = "logout"].pc = "load"
        BY DEF Idle
      <4> QED
        BY <3>2, <4>1 DEF LogoutBegins
    <3> QED
      BY <1>5, <3>1, <3>2
  <2> QED
    BY <1>5, <2>1, Elsewhere DEF ApiBegins, LogoutBegins
<1>6. ASSUME NEW t \in Terminals, NEW u \in Users, LoginBegins(t, u) PROVE Kept
  <2>1. PICK c : calls' = [calls EXCEPT ![t] = c] /\ c.pc = "login"
    <3>1. [Idle EXCEPT !.pc = "login", !.cmd = "login", !.user = u].pc = "login"
      BY DEF Idle
    <3> QED
      BY <1>6, <3>1 DEF LoginBegins
  <2>2. live \subseteq {OfTheFile}
    BY <1>6 DEF LoginBegins, OfFile, OfTheFile
  <2>3. IsFiniteSet({OfTheFile}) /\ Cardinality({OfTheFile}) = 1
    BY FS_Singleton
  <2>4. Cardinality(live) <= 1
    BY <2>2, <2>3, FS_Subset
  <2> QED
    BY <1>6, <2>1, <2>4, Elsewhere DEF LoginBegins
<1>7. ASSUME UNCHANGED vars PROVE Kept
  <2>1. UNCHANGED <<rotates, live, file, calls>> /\ Storing' = Storing /\ Refreshing' = Refreshing
        /\ OfTheFile' = OfTheFile
    BY <1>7 DEF vars, Storing, Refreshing, SessionOf, OfTheFile
  <2>2. \A t : SessionOf(t)' = SessionOf(t)
    BY <2>1 DEF SessionOf
  <2> QED
    <3>1. FewSessions'
      BY <2>1 DEF TokenInv, FewSessions
    <3>2. FileWorks'
      BY <2>1 DEF TokenInv, FileWorks
    <3>3. OneChain'
      BY <2>1, <2>2 DEF TokenInv, OneChain
    <3> QED
      BY <3>1, <3>2, <3>3 DEF Kept
<1>8. Kept
  <2>1. CASE \E s \in Session : Forgets(s)
    BY <2>1, KeptByForgetting
  <2>2. CASE \E t \in Terminals : ApiBegins(t) \/ LogoutBegins(t) \/ Goes(t)
    BY <1>4, <1>5, <2>2
  <2>3. CASE \E t \in Terminals, u \in Users : LoginBegins(t, u)
    BY <1>6, <2>3
  <2> QED
    BY <1>7, <2>1, <2>2, <2>3 DEF Next
<1> QED
  BY <1>1, <1>2, <1>8 DEF TokenInv, Kept

\* While nobody logs in or out beside another command and no answer to a
\* refresh is lost, the session is never lost: for any number of terminals,
\* whether the server replaces its tokens or not, and whatever else fails, the
\* server takes the token of the file, or someone is about to store one that
\* it takes.
THEOREM SessionSurvives == ASSUME Sound, EnoughTokens PROVE Spec => []StoredTokenWorks
<1>1. TokenInv => StoredTokenWorks
  <2> SUFFICES ASSUME TokenInv PROVE StoredTokenWorks
    OBVIOUS
  <2>1. \A t \in Storing : Holds(t)
    BY DEF TokenInv, OneChain, Storing, Holds, SessionOf
  <2>2. \A t \in Terminals : calls[t].pc \in {"revoke", "clear"} => calls[t].cmd = "logout"
    BY DEF TokenInv, CallsOK, CallOK
  <2> QED
    BY <2>1, <2>2 DEF TokenInv, FileWorks, StoredTokenWorks, Storing, OfTheFile
<1> QED
  BY <1>1, TokenInit, TokenNext, PTL DEF Spec
=============================================================================
