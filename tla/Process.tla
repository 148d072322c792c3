------------------------------ MODULE Process -------------------------------
(***************************************************************************)
(* The process from main to its exit status: the daemon, `record`,          *)
(* `record -interval` and `debug`.  It composes main's goroutines (Run,     *)
(* RunTimed or snapshot, Serve, the signal context) with the connection and *)
(* with the finalizers it must not abandon.  What the finalizers do is      *)
(* Delivery's; the file listing of `debug` is Preview's.                    *)
(***************************************************************************)
EXTENDS Connection

CONSTANTS
    Limits,     \* values of -frames; 0 is no limit
    MinFrames,  \* cfg.MinFrames
    MaxFrames,  \* bound: frames of a timed capture
    messagesToSee

ASSUME ProcessAssumption ==
    /\ Limits \subseteq Nat
    /\ MinFrames \in Nat /\ MaxFrames \in Nat
    /\ messagesToSee \in Nat \ {0}

Commands == {"daemon", "record", "once", "timed", "debug"}

VARIABLES
    cmd,        \* the command line: which command,
    limit,      \*   and -frames of a timed capture
    url,        \* the environment, or the .env, sets MEDIA_API_URL
    pc,         \* main's goroutine
    done,       \* the signal context is cancelled
    code,       \* the exit status
    listener,   \* Serve: "off", "up", "failed" or "closed"
    finalizing, \* a finalizer is at work
    frames,     \* of the timed capture
    shelf,      \* where the timed capture's directory is
    got,        \* debug's channel holds the news of a report
    seen,       \* reports debug has noticed
    posted      \* history: a recording went to the endpoint

timedVars == <<frames, shelf>>
debugVars == <<got, seen>>
procVars  == <<pc, done, code, listener, finalizing, timedVars, debugVars, posted>>
args      == <<cmd, limit, url>>
vars      == <<args, procVars, connVars>>

TypeOK ==
    /\ ConnTypeOK
    /\ cmd \in Commands
    /\ limit \in Limits \cup {0}
    /\ url \in BOOLEAN
    /\ pc \in {"start", "preflight", "connect", "watch", "drain", "create", "tick",
               "shoot", "finalize", "dial", "snapshot", "exited"}
    /\ done \in BOOLEAN
    /\ code \in {-1, 0, 1, 2}
    /\ listener \in {"off", "up", "failed", "closed"}
    /\ finalizing \in BOOLEAN
    /\ frames \in 0..MaxFrames
    /\ shelf \in {"none", "staged", "discarded", "parked", "dropped", "delivered"}
    /\ got \in BOOLEAN
    /\ seen \in 0..messagesToSee
    /\ posted \in BOOLEAN

Init ==
    /\ ConnInit
    /\ cmd \in Commands
    /\ limit \in IF cmd = "timed" THEN Limits ELSE {0}
    /\ url \in BOOLEAN
    /\ pc = "start"
    /\ done = FALSE
    /\ code = -1
    /\ listener = "off"
    /\ finalizing = FALSE
    /\ frames = 0
    /\ shelf = "none"
    /\ got = FALSE
    /\ seen = 0
    /\ posted = FALSE

Alive == pc # "exited"

Exit(status) == pc' = "exited" /\ code' = status

-----------------------------------------------------------------------------
(* main.                                                                   *)

(* load: what is there is read; only the daemon must have it (needSink). *)
APIURL == url

Loads == cmd = "daemon" => url

(* run, runRecord, runDebug: a bad flag, a configuration with errors and a  *)
(* staging tree that cannot be made end the process before it is under way. *)
(* debug asks its questions of the printer and the ports, which changes     *)
(* nothing, and goes on whatever the answers are.                           *)
Start ==
    /\ pc = "start"
    /\ \/ Loads /\ pc' = (IF cmd = "debug" THEN "dial" ELSE "preflight") /\ UNCHANGED code
       \/ Exit(1)
       \/ cmd # "daemon" /\ Exit(2)
    /\ UNCHANGED <<done, listener, finalizing, timedVars, debugVars, posted, connVars>>

Signal ==
    /\ Alive /\ pc # "start"
    /\ ~done
    /\ done' = TRUE
    /\ UNCHANGED <<pc, code, listener, finalizing, timedVars, debugVars, posted, connVars>>

(* A listener that fails and is only logged. *)
ServeQuietly ==
    /\ Alive /\ pc # "start"
    /\ cmd = "daemon"
    /\ \/ listener = "off" /\ listener' \in {"up", "failed"}
       \/ listener = "up" /\ done /\ listener' = "closed"
    /\ UNCHANGED <<done, pc, code, finalizing, timedVars, debugVars, posted, connVars>>

(* Serve in its goroutine: the port is bound, or it is not and the context  *)
(* is cancelled; a cancelled context shuts the listener down.               *)
Serve ==
    /\ Alive /\ pc # "start"
    /\ cmd = "daemon"
    /\ \/ listener = "off" /\ listener' = "up" /\ UNCHANGED done
       \/ listener = "off" /\ listener' = "failed" /\ done' = TRUE
       \/ listener = "up" /\ done /\ listener' = "closed" /\ UNCHANGED done
    /\ UNCHANGED <<pc, code, finalizing, timedVars, debugVars, posted, connVars>>

-----------------------------------------------------------------------------
(* Run.                                                                    *)

(* A fatal check ends Run.  Otherwise the client starts to connect, or a    *)
(* timed capture makes its directory; probing the printer changes nothing.  *)
Preflight ==
    /\ pc = "preflight"
    /\ \/ Exit(1) /\ UNCHANGED link
       \/ /\ cmd = "timed" /\ pc' = "create" /\ UNCHANGED <<code, link>>
       \/ /\ cmd # "timed" /\ pc' = "connect" /\ link' = "trying" /\ UNCHANGED code
    /\ UNCHANGED <<done, listener, finalizing, timedVars, debugVars, posted>>
    /\ UNCHANGED <<printer, connected, handlers, subscribed, age, drops>>

(* token.Wait: with SetConnectRetry the token completes with the first      *)
(* connection and not before, whatever the context says.                    *)
FirstConnect ==
    /\ pc = "connect"
    /\ connected
    /\ pc' = "watch"
    /\ UNCHANGED <<done, code, listener, finalizing, timedVars, debugVars, posted, connVars>>

(* ctx.Done, then Disconnect, with a callback that is under way over within *)
(* its grace period.                                                        *)
Disconnect ==
    /\ pc = "watch"
    /\ done
    /\ pc' = "drain"
    /\ link' = "closed"
    /\ handler' = "idle"
    /\ subscribed' = FALSE
    /\ UNCHANGED <<done, code, listener, finalizing, timedVars, debugVars, posted>>
    /\ UNCHANGED <<printer, connected, due, mqttUp, overtaken, age, drops>>

(* finalizing.Wait. *)
Drain ==
    /\ pc = "drain"
    /\ ~finalizing
    /\ Exit(0)
    /\ UNCHANGED <<done, listener, finalizing, timedVars, debugVars, posted, connVars>>

(* A report ends a print: the callback starts a finalizer. *)
ReportEndsPrint ==
    /\ Alive
    /\ ~finalizing
    /\ finalizing' = TRUE
    /\ OnMessage
    /\ UNCHANGED <<pc, done, code, listener, timedVars, debugVars, posted>>

(* With a destination the recording is posted, parked or discarded; without *)
(* one it is parked, discarded or saved, which with -once cancels the       *)
(* context.                                                                 *)
FinalizeEnds ==
    /\ Alive
    /\ finalizing
    /\ finalizing' = FALSE
    /\ done' \in IF cmd = "once" /\ ~APIURL THEN {done, TRUE} ELSE {done}
    /\ posted' \in {posted, posted \/ APIURL}
    /\ UNCHANGED <<pc, code, listener, timedVars, debugVars, connVars>>

-----------------------------------------------------------------------------
(* RunTimed.                                                               *)

Create ==
    /\ pc = "create"
    /\ \/ Exit(1) /\ UNCHANGED shelf
       \/ pc' = "tick" /\ shelf' = "staged" /\ UNCHANGED code
    /\ UNCHANGED <<done, listener, finalizing, frames, debugVars, posted, connVars>>

(* A cancelled capture that just returns. *)
TimedWaitReturns ==
    /\ pc = "tick"
    /\ IF limit = 0 \/ frames < limit
       THEN \/ done /\ Exit(0)
            \/ pc' = "shoot" /\ UNCHANGED code
       ELSE pc' = "finalize" /\ UNCHANGED code
    /\ UNCHANGED <<done, listener, finalizing, timedVars, debugVars, posted, connVars>>

(* The loop's condition and its select: between a cancelled context and a   *)
(* tick that is due either may be taken.                                    *)
TimedWait ==
    /\ pc = "tick"
    /\ IF limit = 0 \/ frames < limit
       THEN pc' = "shoot" \/ (done /\ pc' = "finalize")
       ELSE pc' = "finalize"
    /\ UNCHANGED <<done, code, listener, finalizing, timedVars, debugVars, posted, connVars>>

(* One frame, counted and saved, or none: a refused grab does not end the   *)
(* capture.                                                                 *)
TimedShoot ==
    /\ pc = "shoot"
    /\ pc' = "tick"
    /\ frames' \in {frames, IF frames < MaxFrames THEN frames + 1 ELSE frames}
    /\ UNCHANGED <<done, code, listener, finalizing, shelf, debugVars, posted, connVars>>

(* finalize, in line.  "dropped": Park's rename failed and it removed them. *)
TimedFinalize ==
    /\ pc = "finalize"
    /\ shelf' \in IF frames < MinFrames THEN {"discarded"}
                  ELSE {"parked", "dropped", "delivered"}
    /\ posted' = (APIURL /\ shelf' = "delivered")
    /\ Exit(0)
    /\ UNCHANGED <<done, listener, finalizing, frames, debugVars, connVars>>

-----------------------------------------------------------------------------
(* debug's snapshot, on a client of its own that connects once.            *)

(* Connected within connectWait, or the wait or the connect fails. *)
DebugDial ==
    /\ pc = "dial"
    /\ \/ printer /\ pc' = "snapshot" /\ UNCHANGED code
       \/ Exit(1)
    /\ UNCHANGED <<done, listener, finalizing, timedVars, debugVars, posted, connVars>>

(* The callback merges a report and leaves word of it, if none is waiting. *)
DebugReport ==
    /\ pc = "snapshot"
    /\ printer /\ ~got
    /\ got' = TRUE
    /\ UNCHANGED <<pc, done, code, listener, finalizing, timedVars, seen, posted, connVars>>

(* The state is dumped, which may fail, or summarised. *)
Summarise == \E status \in {0, 1} : Exit(status)

DebugSees ==
    /\ pc = "snapshot" /\ got
    /\ got' = FALSE
    /\ seen' = seen + 1
    /\ IF seen' >= messagesToSee THEN Summarise ELSE UNCHANGED <<pc, code>>
    /\ UNCHANGED <<done, listener, finalizing, timedVars, posted, connVars>>

(* The deadline, with what has been seen, or the cancelled context. *)
DebugGivesUp ==
    /\ pc = "snapshot"
    /\ \/ seen = 0 /\ Exit(1)
       \/ seen > 0 /\ Summarise
       \/ done /\ Exit(1)
    /\ UNCHANGED <<done, listener, finalizing, timedVars, debugVars, posted, connVars>>

-----------------------------------------------------------------------------
Run == Start \/ Preflight \/ FirstConnect \/ Disconnect \/ Drain

RunTimed == Create \/ TimedWait \/ TimedShoot \/ TimedFinalize

Debug == DebugDial \/ DebugSees \/ DebugGivesUp

Rest == ~Alive /\ UNCHANGED <<procVars, connVars>>

Next ==
    /\ UNCHANGED args
    /\ \/ Run \/ RunTimed \/ Debug \/ DebugReport \/ Serve \/ Signal
       \/ ReportEndsPrint \/ FinalizeEnds
       \/ Alive /\ ConnNext /\ UNCHANGED procVars
       \/ Rest

Spec == Init /\ [][Next]_vars

(* The client retries and runs its handlers, time passes, and a printer     *)
(* that is heard keeps reporting.  Nobody has to switch it on.              *)
ConnFairness ==
    /\ WF_connVars(Alive /\ Connects)
    /\ WF_connVars(Alive /\ OnConnect)
    /\ WF_connVars(Alive /\ Subscribe)
    /\ WF_connVars(Alive /\ AskSnapshot)
    /\ WF_connVars(Alive /\ ConnectionLost)
    /\ WF_connVars(Alive /\ Tick)
    /\ WF_connVars(Alive /\ OnMessage)

(* Main's goroutine and Serve's run, a finalizer ends, and of a cancelled   *)
(* context and a ticker the select does not pass over the context for ever. *)
Fairness ==
    /\ ConnFairness
    /\ WF_procVars(Run) /\ WF_procVars(RunTimed) /\ WF_procVars(Debug) /\ WF_procVars(Serve)
    /\ WF_procVars(FinalizeEnds)
    /\ SF_procVars(TimedWait /\ done /\ pc' = "finalize")

FairSpec == Spec /\ Fairness

-----------------------------------------------------------------------------
(* A process that has heard the printer and hears it no longer, because the *)
(* connection broke or the subscription after a reconnect was refused, is   *)
(* called unhealthy in the end, in whatever order the handlers run (the     *)
(* staleness rule of /healthz).  Before the first report there is no age to *)
(* go by, and a refused subscription stays healthy for ever.                *)
DeafIsUnhealthy ==
    age # Never /\ ~Hearing /\ Alive ~> ~Healthy \/ Hearing \/ ~Alive

(* Health comes back with the printer: while reports arrive the verdict     *)
(* turns healthy, unless a lost handler overtook the reconnect's onConnect. *)
HealthReturns ==
    Hearing /\ Alive ~> Healthy \/ ~Hearing \/ overtaken \/ ~Alive

(* The process ends when it should.  Cancelled, by a signal or because the  *)
(* health endpoint could not be bound (main: never run blind): at once when *)
(* the first connect is behind it, otherwise as soon as the printer stays   *)
(* switched on (Run's token.Wait).  And debug by itself, with the printer   *)
(* off, mute or chatty: every wait of snapshot has a limit.                 *)
Stops ==
    /\ done /\ pc # "connect" /\ pc # "preflight" ~> ~Alive
    /\ <>[]printer => (done \/ listener = "failed" ~> ~Alive)
    /\ cmd = "debug" ~> ~Alive

(* Only the daemon posts: record keeps what it makes (README, "Only the     *)
(* daemon posts").  LoadPrinter does not require MEDIA_API_URL, and does    *)
(* not clear it either.                                                     *)
RecordIsLocal == posted => cmd = "daemon"

(* The process exits with nothing abandoned: no finalizer is at work (Run's *)
(* finalizing.Wait, though reports arrive until Disconnect), and a timed    *)
(* capture has dealt with what it captured, Ctrl-C included: only too few   *)
(* frames are discarded, enough of them are delivered or go to Park, whose  *)
(* fallback may remove them (RunTimed).                                     *)
NoneAbandoned ==
    ~Alive =>
        /\ ~finalizing
        /\ shelf # "staged"
        /\ frames >= MinFrames /\ frames > 0 => shelf \in {"parked", "dropped", "delivered"}
=============================================================================
