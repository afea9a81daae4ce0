------------------------------- MODULE Session -------------------------------
(***************************************************************************)
(* ~/.deltix/credentials.json and the commands that share it: every        *)
(* command that calls the server trades the stored refresh token for an    *)
(* access token, stores what comes back and sends its request, once more   *)
(* when the access token is refused.  Terminals run side by side, and the  *)
(* server may replace the refresh token each time it is used.              *)
(***************************************************************************)
EXTENDS Naturals

CONSTANTS
  Users,
  Terminals,
  MaxToken,  \* bound: refresh tokens, named 1..MaxToken; unused ones are new
  Uses,      \* "race": login and logout while other commands run
  Faults     \* "expires", "offline", "answerLost", "refreshLost"

ASSUME ConstantsAssumption ==
  /\ MaxToken \in Nat
  /\ Uses \subseteq {"race"} /\ Faults \subseteq {"expires", "offline", "answerLost", "refreshLost"}

VARIABLES
  rotates,  \* whether the server replaces a refresh token that is used
  live,     \* the refresh tokens it takes, each with its user
  file,     \* credentials.json; torn between truncation and write
  calls     \* the command of each terminal; ran: how often its request took effect

vars == <<rotates, live, file, calls>>

Token == 1..MaxToken
Nobody  == CHOOSE u \in Users : TRUE
Session == [token : Token, user : Users]
NoFile == [state |-> "none", token |-> 1, user |-> Nobody]
Torn    == [NoFile EXCEPT !.state = "torn"]

Stored(token, user) == [state |-> "whole", token |-> token, user |-> user]

\* pc: load, refresh, truncate, write, request, answer; login; revoke, clear.
\* cmd: api, login, logout.
Idle  == [pc |-> "idle", cmd |-> "none", token |-> 1, user |-> Nobody, retry |-> FALSE, ran |-> 0]

At(t, pc)   == calls[t].pc = pc
Step(t, pc) == calls' = [calls EXCEPT ![t].pc = pc]
Ends(t)     == calls' = [calls EXCEPT ![t] = Idle]
Fails(f)    == f \in Faults
AllIdle     == \A t \in Terminals : At(t, "idle")

OfFile == {[token |-> f.token, user |-> f.user] : f \in {file} \ {NoFile, Torn}}

\* A token the server has not given away.
InUse == {s.token : s \in live} \cup {file.token} \cup {calls[t].token : t \in Terminals}
New   == CHOOSE token \in Token : token \notin InUse

Init ==
  /\ rotates \in BOOLEAN
  /\ live = {} /\ file = NoFile
  /\ calls = [t \in Terminals |-> Idle]

-----------------------------------------------------------------------------
MayStart(cmd) == \/ AllIdle \/ "race" \in Uses
                 \/ cmd = "api" /\ \A t \in Terminals : calls[t].cmd \in {"none", "api"}

\* Every method of VersioningService: mint an access token, send a request.
ApiBegins(t) ==
  /\ At(t, "idle") /\ MayStart("api")
  /\ calls' = [calls EXCEPT ![t] = [Idle EXCEPT !.pc = "load", !.cmd = "api"]]
  /\ UNCHANGED <<rotates, live, file>>

LoginBegins(t, u) ==
  /\ At(t, "idle") /\ MayStart("login") /\ live \subseteq OfFile  \* bound: one forgotten session
  /\ calls' = [calls EXCEPT ![t] = [Idle EXCEPT !.pc = "login", !.cmd = "login", !.user = u]]
  /\ UNCHANGED <<rotates, live, file>>

LogoutBegins(t) ==
  /\ At(t, "idle") /\ MayStart("logout")
  /\ calls' = [calls EXCEPT ![t] = [Idle EXCEPT !.pc = "load", !.cmd = "logout"]]
  /\ UNCHANGED <<rotates, live, file>>

-----------------------------------------------------------------------------
\* CredentialsStore.load: without a file there is no session, and a torn file
\* is an error; both end the command, a retry too.
Load(t) ==
  /\ At(t, "load")
  /\ IF file.state = "whole"
     THEN calls' = [calls EXCEPT ![t].pc = IF @ = "load" /\ calls[t].cmd = "logout" THEN "revoke" ELSE "refresh",
                                 ![t].token = file.token, ![t].user = file.user]
     ELSE Ends(t)
  /\ UNCHANGED <<rotates, live, file>>

\* Mutant of AfterRefresh: the token that came back is not stored.
AfterRefresh_KeepsOld == "request"

AfterRefresh == "truncate"

\* /auth/refresh; a token the server does not know ends the command.
Refresh(t) ==
  LET old == [token |-> calls[t].token, user |-> calls[t].user]
      new == IF rotates THEN [old EXCEPT !.token = New] ELSE old
  IN  /\ At(t, "refresh")
      /\ IF old \in live
         THEN /\ live' = (live \ {old}) \cup {new}
              /\ calls' = [calls EXCEPT ![t].pc = AfterRefresh, ![t].token = new.token]
         ELSE Ends(t) /\ UNCHANGED live
      /\ UNCHANGED <<rotates, file>>

\* The server cannot be reached; or it can, and its answer is lost.
RefreshFails(t) == \E taken \in {FALSE : f \in {"offline"} \cap Faults} \cup {rotates : f \in {"refreshLost"} \cap Faults} :
  /\ At(t, "refresh")
  /\ live' = IF taken THEN {s \in live : s.token # calls[t].token} \cup {[token |-> New, user |-> calls[t].user]}
                      ELSE live
  /\ Ends(t)
  /\ UNCHANGED <<rotates, file>>

\* CredentialsStore.save: writeFile truncates the file, then writes it.
Truncate(t) ==
  /\ At(t, "truncate")
  /\ file' = Torn
  /\ Step(t, "write")
  /\ UNCHANGED <<rotates, live>>

Write(t) ==
  /\ At(t, "write")
  /\ file' = Stored(calls[t].token, calls[t].user)
  /\ IF calls[t].cmd = "login" THEN Ends(t) ELSE Step(t, "request")
  /\ UNCHANGED <<rotates, live>>

-----------------------------------------------------------------------------
\* Mutant of MayRetry: a refused token is refreshed again and again.
MayRetry_Always(t) == TRUE

\* request: the first 401 refreshes the session, the second is the answer.
MayRetry(t) == ~calls[t].retry

\* The server does what it is asked.
RequestRuns(t) ==
  /\ At(t, "request")
  /\ calls' = [calls EXCEPT ![t].pc = "answer", ![t].ran = @ + 1]
  /\ UNCHANGED <<rotates, live, file>>

\* 401: the access token lived too short.
Refused(t) ==
  /\ At(t, "request") /\ Fails("expires")
  /\ IF MayRetry(t) THEN calls' = [calls EXCEPT ![t].pc = "load", ![t].retry = TRUE]
                    ELSE Ends(t)
  /\ UNCHANGED <<rotates, live, file>>

RequestFails(t) ==
  /\ At(t, "request") /\ Fails("offline")
  /\ Ends(t)
  /\ UNCHANGED <<rotates, live, file>>

Answered(t) ==
  /\ At(t, "answer")
  /\ Ends(t)
  /\ UNCHANGED <<rotates, live, file>>

\* Mutant of AfterLoss: what had no answer is sent again.
AfterLoss_Retries(t) == IF calls[t].retry THEN calls' = [calls EXCEPT ![t] = Idle]
                        ELSE calls' = [calls EXCEPT ![t].pc = "request", ![t].retry = TRUE]

\* A request without an answer is not repeated: it may have taken effect.
AfterLoss(t) == Ends(t)

AnswerLost(t) ==
  /\ At(t, "answer") /\ Fails("answerLost")
  /\ AfterLoss(t)
  /\ UNCHANGED <<rotates, live, file>>

-----------------------------------------------------------------------------
LoginSucceeds(t) ==
  /\ At(t, "login")
  /\ live' = live \cup {[token |-> New, user |-> calls[t].user]}
  /\ calls' = [calls EXCEPT ![t].pc = "truncate", ![t].token = New]
  /\ UNCHANGED <<rotates, file>>

\* Invalid credentials, or no server.
LoginFails(t) ==
  /\ At(t, "login")
  /\ Ends(t)
  /\ UNCHANGED <<rotates, live, file>>

\* Mutant of Revokes: a failed logout leaves the session.
Revokes_OrStays(t) == \E reached \in {TRUE} \cup {FALSE : f \in {"offline"} \cap Faults} :
  /\ At(t, "revoke")
  /\ live' = {s \in live : s.token # calls[t].token}
  /\ IF reached THEN Step(t, "clear") ELSE Ends(t)
  /\ UNCHANGED <<rotates, file>>

\* /auth/logout; whatever comes of it, the file goes.
Revokes(t) == \E reached \in {TRUE} \cup {FALSE : f \in {"offline"} \cap Faults} :
  /\ At(t, "revoke")
  /\ live' = IF reached THEN {s \in live : s.token # calls[t].token} ELSE live
  /\ Step(t, "clear")
  /\ UNCHANGED <<rotates, file>>

Clear(t) ==
  /\ At(t, "clear")
  /\ file' = NoFile
  /\ Ends(t)
  /\ UNCHANGED <<rotates, live>>

\* A session of nobody's file ends on the server in time; the name is free.
Forgets(s) ==
  /\ AllIdle /\ s \in live \ OfFile
  /\ live' = live \ {s}
  /\ UNCHANGED <<rotates, file, calls>>

-----------------------------------------------------------------------------
Goes(t) ==
  \/ Load(t) \/ Refresh(t) \/ RefreshFails(t) \/ Truncate(t) \/ Write(t)
  \/ RequestRuns(t) \/ Refused(t) \/ RequestFails(t) \/ Answered(t) \/ AnswerLost(t)
  \/ LoginSucceeds(t) \/ LoginFails(t) \/ Revokes(t) \/ Clear(t)

Next ==
  \/ \E t \in Terminals : ApiBegins(t) \/ LogoutBegins(t) \/ Goes(t)
  \/ \E t \in Terminals, u \in Users : LoginBegins(t, u)
  \/ \E s \in Session : Forgets(s)

Spec == Init /\ [][Next]_vars

\* A command that was started runs on.
FairSpec == Spec /\ \A t \in Terminals : WF_vars(Goes(t))

-----------------------------------------------------------------------------
\* The session is never lost while nobody logs out: the server takes the stored
\* token, or a terminal is about to store one that it takes ("persist whatever
\* it returns so the next call keeps working").
Holds(t) == calls[t].pc \in {"truncate", "write"}
            /\ [token |-> calls[t].token, user |-> calls[t].user] \in live
StoredTokenWorks ==
  \/ file.state = "none" \/ \E t \in Terminals : Holds(t) \/ calls[t].cmd = "logout"
  \/ file.state = "whole" /\ [token |-> file.token, user |-> file.user] \in live

\* One command has its effect on the server at most once, whatever is refused
\* or lost.
RunsAtMostOnce == \A t \in Terminals : calls[t].ran <= 1

\* A logout that found a session leaves none in the file ("always clear the
\* local credential even if the server-side revoke call fails").
LogoutClears ==
  [][\A t \in Terminals : calls[t].cmd = "logout" /\ ~At(t, "load") /\ calls'[t] = Idle
       => file'.state = "none"]_calls

\* A command ends, even when the server refuses every access token ("with
\* infinite retries we'd mask real auth failures").
CommandsEnd == \A t \in Terminals : []<>At(t, "idle")
=============================================================================
