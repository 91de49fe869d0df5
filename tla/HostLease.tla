------------------------------- MODULE HostLease -------------------------------
(***************************************************************************)
(* The programs that own leases, composed with the payload's pipe workers: *)
(* the requests and responses of exchange, the end of a pipe whatever ended *)
(* it, and the decision Lease::release takes on the strength of the release *)
(* response, which the payload fills in after it has let go of its mutex.   *)
(*                                                                         *)
(* Client w talks to worker w.  A byte written before the client's end was  *)
(* closed can still be read afterwards.  Whether a search for Steam's HID   *)
(* thread succeeds is a free choice, and so is the life of the cached       *)
(* address in between (RecoveryResolution has the detail).                  *)
(***************************************************************************)
EXTENDS GateOwnership

CONSTANTS
    Role,           \* [Workers -> Commands]: what each client asks for
    TargetIsSteam   \* the target's name, which all clients share, is Steam's

ASSUME RoleAssumption == Role \in [Workers -> {"AcquireLease", "AcquirePassThrough"}]
ASSUME TargetAssumption == TargetIsSteam \in BOOLEAN

VARIABLES
    host,           \* where each client is in acquire and release
    open,           \* the client's end of its pipe is open
    wire,           \* what the client wrote last, "none" before it wrote
    answer,         \* the response that waits for the client
    outcome,        \* what release told its caller
    unasked,        \* history: blocking ended, Steam was not asked to look
                    \* again, and no client was told so
    abrupt          \* history: a lease's connection ended without a release

hostVars == <<host, open, wire, answer, outcome, unasked, abrupt>>
allVars == <<vars, hostVars>>

ReleaseAnswers == {"othersLeft", "capable", "incapable"}

\* Every variable has its type.
HostTypeOK ==
    /\ TypeOK
    /\ host \in [Workers -> {"connected", "asking", "holding", "releasing",
                             "firstPass", "secondPass", "ended"}]
    /\ open \in [Workers -> BOOLEAN]
    /\ wire \in [Workers -> {"none", "request", "release"}]
    /\ answer \in [Workers -> {"none", "granted", "refused"} \cup ReleaseAnswers]
    /\ outcome \in [Workers -> {"none", "NotRequired", "Scheduled", "Completed",
                                "Unavailable"}]
    /\ unasked \in BOOLEAN
    /\ abrupt \in BOOLEAN

HostInit ==
    /\ Init
    /\ host = [c \in Workers |-> "connected"]
    /\ open = [c \in Workers |-> TRUE]
    /\ wire = [c \in Workers |-> "none"]
    /\ answer = [c \in Workers |-> "none"]
    /\ outcome = [c \in Workers |-> "none"]
    /\ unasked = FALSE
    /\ abrupt = FALSE

-----------------------------------------------------------------------------
(* The payload's side of a connection: GateOwnership's steps, with what they *)
(* read from the pipe and write to it.                                      *)

\* The first read: the whole request, or the end of file.
PayloadReads(w) ==
    /\ wire[w] = "request" \/ ~open[w]
    /\ ReadRequest(w)
    /\ request'[w] = IF wire[w] = "request" THEN Role[w] ELSE "Invalid"
    /\ UNCHANGED hostVars

PayloadOwns(w) ==
    /\ EnsureHooks(w) \/ AcquireLease(w) \/ AcquirePassThrough(w) \/ Release(w)
    /\ UNCHANGED hostVars

PayloadRevokes(w) ==
    /\ Revoke(w)
    /\ unasked' = FALSE
    /\ UNCHANGED <<host, open, wire, answer, outcome, abrupt>>

\* A rescan that finds no HID thread only broadcasts to Steam's windows.
PayloadNotifies(w) ==
    /\ Notify(w)
    /\ unasked' \in BOOLEAN
    /\ UNCHANGED <<host, open, wire, answer, outcome, abrupt>>

Deliver(w, response) ==
    answer' = IF open[w] THEN [answer EXCEPT ![w] = response] ELSE answer

PayloadAnswers(w) ==
    /\ Respond(w)
    /\ Deliver(w, IF result[w] = "Ok" THEN "granted" ELSE "refused")
    /\ UNCHANGED <<host, open, wire, outcome, unasked, abrupt>>

\* response() loads the counter and the capability when nobody holds the mutex;
\* a status reply of another client may have refreshed the cache in the meantime.
ReleaseAnswerFor(others) ==
    IF others THEN {"othersLeft"} ELSE {"capable", "incapable"}
ForgetsItsOwn == ReleaseAnswerFor(leaseCount + 1 > 0)
AnswersToRelease == ReleaseAnswerFor(leaseCount > 0)

\* The second read: the release command, or the end of file.
ReadsOnlyReleases(w) ==
    /\ wire[w] = "release"
    /\ ReadRelease(w)
    /\ UNCHANGED hostVars
ReadsAndConfirms(w) ==
    /\ wire[w] = "release" \/ ~open[w]
    /\ ReadRelease(w)
    /\ \E response \in AnswersToRelease : Deliver(w, response)
    /\ UNCHANGED <<host, open, wire, outcome, unasked, abrupt>>
PayloadReadsRelease(w) ==
    /\ wire[w] = "release" \/ ~open[w]
    /\ ReadRelease(w)
    /\ UNCHANGED hostVars

\* An explicit release is answered, any other end is not.
PayloadConfirms(w) ==
    /\ RespondReleased(w)
    /\ IF wire[w] = "release"
       THEN \E response \in AnswersToRelease : Deliver(w, response)
       ELSE UNCHANGED answer
    /\ UNCHANGED <<host, open, wire, outcome, unasked, abrupt>>

PayloadDisconnects(w) ==
    /\ Disconnect(w)
    /\ UNCHANGED hostVars

PayloadStep(w) ==
    \/ PayloadReads(w) \/ PayloadOwns(w) \/ PayloadRevokes(w) \/ PayloadNotifies(w)
    \/ PayloadAnswers(w) \/ PayloadReadsRelease(w) \/ PayloadConfirms(w)
    \/ PayloadDisconnects(w)

-----------------------------------------------------------------------------
(* The client.                                                              *)

Move(c, place) == host' = [host EXCEPT ![c] = place]
Report(c, value) == outcome' = [outcome EXCEPT ![c] = value]
IsLease(c) == Role[c] = "AcquireLease"

\* exchange: the request is written, then the client waits for the response.
Ask(c) ==
    /\ host[c] = "connected"
    /\ Move(c, "asking")
    /\ wire' = [wire EXCEPT ![c] = "request"]
    /\ UNCHANGED <<vars, open, answer, outcome, unasked, abrupt>>

\* A response whose result is not Ok is an error: the pipe is dropped with it.
BelieveAnyAnswer(c) ==
    /\ host[c] = "asking" /\ answer[c] # "none"
    /\ Move(c, "holding")
    /\ answer' = [answer EXCEPT ![c] = "none"]
    /\ UNCHANGED <<vars, open, wire, outcome, unasked, abrupt>>
TakeAnswer(c) ==
    /\ host[c] = "asking" /\ answer[c] # "none"
    /\ IF answer[c] = "granted"
       THEN Move(c, "holding") /\ UNCHANGED open
       ELSE Move(c, "ended") /\ open' = [open EXCEPT ![c] = FALSE]
    /\ answer' = [answer EXCEPT ![c] = "none"]
    /\ UNCHANGED <<vars, wire, outcome, unasked, abrupt>>

AskRelease(c) ==
    /\ host[c] = "holding"
    /\ Move(c, "releasing")
    /\ wire' = [wire EXCEPT ![c] = "release"]
    /\ UNCHANGED <<vars, open, answer, outcome, unasked, abrupt>>

\* Lease::release: the pipe is dropped before the response is looked at.  With
\* other leases, or in another target, no recovery applies; a capable payload is taken to have scheduled
\* it; otherwise the host does it itself.
TakeReleased(c) ==
    /\ host[c] = "releasing" /\ answer[c] \in ReleaseAnswers
    /\ open' = [open EXCEPT ![c] = FALSE]
    /\ IF ~IsLease(c)
       THEN Move(c, "ended") /\ UNCHANGED <<outcome, unasked>>
       ELSE CASE ~TargetIsSteam \/ answer[c] = "othersLeft" ->
                   Report(c, "NotRequired") /\ Move(c, "ended") /\ UNCHANGED unasked
              [] TargetIsSteam /\ answer[c] = "capable" ->
                   Report(c, "Scheduled") /\ Move(c, "ended") /\ unasked' = FALSE
              [] OTHER ->
                   Move(c, "firstPass") /\ UNCHANGED <<outcome, unasked>>
    /\ answer' = [answer EXCEPT ![c] = "none"]
    /\ UNCHANGED <<vars, wire, abrupt>>

\* rescan_steam_controllers: two requests, the second after Steam's cleanup.  The
\* first that fails ends the recovery, and its caller is told.
RescanPass(c) ==
    /\ host[c] \in {"firstPass", "secondPass"}
    /\ unasked' = FALSE
    /\ \/ host[c] = "firstPass" /\ Move(c, "secondPass") /\ UNCHANGED outcome
       \/ host[c] = "secondPass" /\ Move(c, "ended") /\ Report(c, "Completed")
       \/ Move(c, "ended") /\ Report(c, "Unavailable")
    /\ UNCHANGED <<vars, open, wire, answer, abrupt>>

Close(c) ==
    /\ Move(c, "ended")
    /\ open' = [open EXCEPT ![c] = FALSE]
    /\ abrupt' = (abrupt \/ IsLease(c))
    /\ answer' = [answer EXCEPT ![c] = "none"]
    /\ UNCHANGED <<vars, wire, outcome, unasked>>

\* The owner drops its handle, destroys it, or asks for a release with nowhere to
\* put the outcome: the pipe closes without a release command.
Drop(c) == host[c] = "holding" /\ Close(c)

\* exchange fails: the pipe broke or the response does not parse.
ExchangeFails(c) ==
    /\ host[c] \in {"connected", "asking", "releasing"}
    /\ Close(c)

\* The process ends: Windows closes its pipe.
Crash(c) == host[c] # "ended" /\ Close(c)

ClientStep(c) ==
    \/ Ask(c) \/ TakeAnswer(c) \/ AskRelease(c) \/ TakeReleased(c) \/ RescanPass(c)
    \/ Drop(c) \/ ExchangeFails(c) \/ Crash(c)

\* No client is left; ClosedPipeReleases says what the payload still has to do.
HostDone ==
    /\ \A c \in Workers : host[c] = "ended"
    /\ UNCHANGED allVars

-----------------------------------------------------------------------------

HostNext ==
    \/ \E w \in Workers : PayloadStep(w) \/ ClientStep(w)
    \/ HostDone

\* The payload's threads run; what a client does, and when, is its own affair.
HostSpec ==
    /\ HostInit /\ [][HostNext]_allVars
    /\ \A w \in Workers : WF_allVars(PayloadStep(w))

-----------------------------------------------------------------------------

\* A client that believes it owns a lease or a pass-through is counted by the
\* payload: no response, however late, makes it believe so wrongly (acquire).
HolderIsCounted ==
    \A c \in Workers :
        host[c] = "holding" => owns[c] = IF IsLease(c) THEN "lease" ELSE "pass"

\* A reported release is a finished one: by the time release decides on recovery
\* the payload no longer counts the lease (Lease::release).
ReportedReleaseIsDone ==
    \A c \in Workers :
        host[c] \in {"firstPass", "secondPass"}
            \/ outcome[c] \in {"NotRequired", "Scheduled", "Completed", "Unavailable"}
        => owns[c] = "none"

\* Nobody is left in the dark: when blocking is over in Steam, Steam was not asked to
\* look again and no client was told, there is still a lease whose release will see to
\* it, or a release under way, or a lease's program crashed or lost its pipe.
RecoveryNotForgotten ==
    TargetIsSteam /\ unasked =>
        \/ leaseCount > 0
        \/ \E c \in Workers : IsLease(c) /\ host[c] \in {"releasing", "firstPass"}
        \/ abrupt

\* The crash-safe path: once its end of the pipe is closed, whatever closed it, a
\* client's ownership is given up and its worker ends.
ClosedPipeReleases ==
    \A c \in Workers : ~open[c] ~> owns[c] = "none" /\ At(c, "done")

\* What the documentation of RecoveryOutcome says: Scheduled means the payload
\* scheduled discovery on its own timer.
ScheduledMeansAsked ==
    [][\A c \in Workers :
         outcome'[c] = "Scheduled" /\ outcome[c] # "Scheduled" => ~unasked]_allVars

================================================================================
