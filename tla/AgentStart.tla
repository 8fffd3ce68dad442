----------------------------- MODULE AgentStart -----------------------------
(***************************************************************************)
(* The start of the agent and its reaction to the configuration, composed  *)
(* with AgentConfig: run, which waits for a first configuration, starts    *)
(* the task loop and serves once that loop has signalled; and runTaskLoop, *)
(* which registers the agent, opens or closes its Client as the            *)
(* configuration says, signals, and watches the configuration.             *)
(*                                                                         *)
(* The signal is a send on an unbuffered channel that is given up if       *)
(* nobody receives at that moment. A Client is here only open, closed or   *)
(* nil, and the tasker only a place where a loop may wait for ever; the    *)
(* module TaskClient has the inside of both.                               *)
(***************************************************************************)
EXTENDS AgentConfig

VARIABLES
    main,    \* where run is
    loop,    \* where runTaskLoop is
    client   \* the taskNotificationClient of runTaskLoop

startVars == <<main, loop, client>>
vars == <<configVars, startVars>>

Alive == main \notin {"returned", "fatal", "panic"}

(***************************************************************************)
(* Types, and one caller of WatchConfig at a time.                         *)
(***************************************************************************)
TypeOK ==
    /\ ConfigTypeOK
    /\ main \in {"config", "start", "signal", "ticker", "serve", "enqueue",
                 "returned", "fatal", "panic"}
    /\ loop \in {"off", "top", "register", "client", "enqueue", "close", "signal",
                 "watch", "returned"}
    /\ client \in {"nil", "open", "closed"}
    /\ Alive /\ watch # "out" => (main = "config") # (loop = "watch")

Init ==
    /\ ConfigInit
    /\ main = "config"
    /\ loop = "off"
    /\ client = "nil"

-----------------------------------------------------------------------------
(* run *)

\* A nil dereference in WatchConfig ends the process.
Panic ==
    /\ watch = "panic"
    /\ main' = "panic"
    /\ UNCHANGED <<configVars, loop, client>>

LeaveWatch ==
    /\ watch' = "out"
    /\ UNCHANGED <<log, lEtag, agentConfig, webErrors, webError, unmarshals, fired, ctxDone>>

\* The first WatchConfig returns. An error is fatal.
FirstConfig ==
    /\ main = "config"
    /\ watch \in {"ok", "error"}
    /\ main' = IF watch = "error" THEN "fatal" ELSE "start"
    /\ LeaveWatch
    /\ UNCHANGED <<loop, client>>

\* runServiceLoop starts runTaskLoop.
StartTaskLoop ==
    /\ main = "start"
    /\ loop = "off"
    /\ loop' = "top"
    /\ UNCHANGED <<configVars, main, client>>

\* runServiceLoop begins to receive the signal.
AwaitSignal ==
    /\ main = "start"
    /\ loop # "off"
    /\ main' = "signal"
    /\ UNCHANGED <<configVars, loop, client>>

\* The service loop makes its ticker, which panics if the interval is not positive.
MakeTicker ==
    /\ main = "ticker"
    /\ main' = IF SvcPollInterval(agentConfig.poll) <= 0 THEN "panic" ELSE "serve"
    /\ UNCHANGED <<configVars, loop, client>>

\* A turn of the service loop: policies.Run and the inventory report enqueue a
\* task. Enqueue does not look at the context.
ServiceEnqueue ==
    /\ main = "serve"
    /\ \E f \in {"guestpolicies", "osinventory"} : agentConfig.features[f]
    /\ main' = "enqueue"
    /\ UNCHANGED <<configVars, loop, client>>

\* The tasker has taken the task, if it ever does.
ServiceEnqueued ==
    /\ main = "enqueue"
    /\ main' = "serve"
    /\ UNCHANGED <<configVars, loop, client>>

\* Variant of ServiceReturns that waits for the task loop.
ServiceReturnsAfterLoop ==
    /\ main = "serve"
    /\ ctxDone
    /\ loop = "returned"
    /\ main' = "returned"
    /\ UNCHANGED <<configVars, loop, client>>

\* The service loop ends with the context.
ServiceReturns ==
    /\ main = "serve"
    /\ ctxDone
    /\ main' = "returned"
    /\ UNCHANGED <<configVars, loop, client>>

-----------------------------------------------------------------------------
(* runTaskLoop *)

LoopTop ==
    /\ loop = "top"
    /\ loop' = IF agentConfig.features["tasks"] /\ client = "nil" THEN "register" ELSE "client"
    /\ UNCHANGED <<configVars, main, client>>

\* registerAgent succeeds; it tries for ever, and no call succeeds once the
\* context is done.
Registered ==
    /\ loop = "register"
    /\ ~ctxDone
    /\ loop' = "client"
    /\ UNCHANGED <<configVars, main, client>>

\* Tasks are enabled and there is no open Client: a new one, or nil if NewClient
\* fails. With a saved task WaitForTaskNotification calls Enqueue.
LoopOpens ==
    /\ agentConfig.features["tasks"] /\ client # "open"
    /\ \/ client' = "open" /\ loop' \in {"enqueue", "signal"}
       \/ client' = "nil" /\ loop' = "signal"

\* Tasks are disabled and Closed() says that the Client is open: Close is called.
LoopCalls ==
    /\ ~agentConfig.features["tasks"] /\ client = "open"
    /\ loop' = "close"
    /\ UNCHANGED client

LoopKeeps ==
    /\ agentConfig.features["tasks"] <=> client = "open"
    /\ loop' = "signal"
    /\ UNCHANGED client

LoopClient ==
    /\ loop = "client"
    /\ LoopOpens \/ LoopCalls \/ LoopKeeps
    /\ UNCHANGED <<configVars, main>>

\* The tasker has taken the saved task, if it ever does.
LoopEnqueued ==
    /\ loop = "enqueue"
    /\ loop' = "signal"
    /\ UNCHANGED <<configVars, main, client>>

\* Close gets the lock of the Client, if it ever does: a task may hold it, and the
\* Close of a Client that has closed itself in the meantime never gets it.
LoopCloses ==
    /\ loop = "close"
    /\ client = "open"
    /\ client' = "closed"
    /\ loop' = "signal"
    /\ UNCHANGED <<configVars, main>>

\* The Client closes itself when its stream fails for good.
ClientCloses ==
    /\ client = "open"
    /\ loop # "enqueue"
    /\ client' = "closed"
    /\ UNCHANGED <<configVars, main, loop>>

\* The signal, which is lost on a service loop that does not yet wait for it, and
\* the call of WatchConfig.
LoopSignal ==
    /\ loop = "signal"
    /\ main' = IF main = "signal" THEN "ticker" ELSE main
    /\ loop' = "watch"
    /\ WatchConfig
    /\ UNCHANGED client

\* Variant of LoopWatched that ends the loop at an error of WatchConfig.
LoopWatchedEnds ==
    /\ loop = "watch"
    /\ watch \in {"ok", "error"}
    /\ loop' = IF ctxDone \/ watch = "error" THEN "returned" ELSE "top"
    /\ LeaveWatch
    /\ UNCHANGED <<main, client>>

LoopWatched ==
    /\ loop = "watch"
    /\ watch \in {"ok", "error"}
    /\ loop' = IF ctxDone THEN "returned" ELSE "top"
    /\ LeaveWatch
    /\ UNCHANGED <<main, client>>

-----------------------------------------------------------------------------
FirstWatch ==
    /\ main = "config"
    /\ WatchConfig
    /\ UNCHANGED startVars

Watching == WatchStep /\ UNCHANGED startVars

Environment == (MetadataChange \/ Sigterm \/ Fire) /\ UNCHANGED startVars

Next ==
    /\ Alive
    /\ \/ FirstWatch \/ Watching \/ Environment
       \/ Panic \/ FirstConfig \/ StartTaskLoop \/ AwaitSignal \/ MakeTicker
       \/ ServiceEnqueue \/ ServiceEnqueued \/ ServiceReturns
       \/ LoopTop \/ Registered \/ LoopClient \/ LoopEnqueued \/ LoopCloses
       \/ ClientCloses \/ LoopSignal \/ LoopWatched

Spec == Init /\ [][Next]_vars

\* A loop that is not inside Enqueue or Close goes on, time passes, the service lets
\* the agent register, and the metadata server is not unreachable for ever. The select
\* at the end of a turn of the service loop picks among its ready cases at random, so
\* that the context is not passed over for ever. Nothing is said of Enqueue and Close.
Fairness ==
    /\ WF_vars(Alive /\ (FirstWatch \/ Panic \/ FirstConfig \/ MakeTicker))
    /\ SF_vars(Alive /\ ServiceReturns)
    /\ WF_vars(Alive /\ StartTaskLoop) /\ WF_vars(Alive /\ AwaitSignal)
    /\ WF_vars(Alive /\ (LoopTop \/ Registered \/ LoopClient \/ LoopSignal \/ LoopWatched))
    /\ WF_vars(Alive /\ Watching)
    /\ WF_vars(Alive /\ Fire /\ UNCHANGED startVars)
    /\ SF_vars(Alive /\ Timeout /\ UNCHANGED startVars)
    /\ SF_vars(Alive /\ GetChanged /\ UNCHANGED startVars)

FairSpec == Spec /\ Fairness

-----------------------------------------------------------------------------
(***************************************************************************)
(* While the agent waits for a change of its configuration, it has no open *)
(* connection for tasks if they are disabled: a configuration that         *)
(* disables them has closed the Client before the next wait.               *)
(***************************************************************************)
NoClientWhileDisabled ==
    loop = "watch" /\ watch \in {"get", "wait", "waitBad"} /\ client = "open"
        => agentConfig.features["tasks"]

(***************************************************************************)
(* The process panics in two cases only: an instance that sets the poll    *)
(* interval under its old name alone, and an interval that is no positive  *)
(* duration. That is either what the metadata asks for, with 0, a negative *)
(* number or one whose duration overflows to such a number (and never the  *)
(* default, an unset attribute or one that is no number), or what is left  *)
(* of agentConfig if SIGTERM ended the first WatchConfig.                  *)
(***************************************************************************)
AsksForNoInterval(md) ==
    LET p == md.project
        asked == <<md.instance.poll, IF p.poll # Unset THEN p.poll ELSE p.pollOld>>
    IN \E k \in 1..2 :
          /\ \A j \in 1..(k - 1) : asked[j] \in {Unset, NotInt}
          /\ asked[k] \notin {Unset, NotInt}
          /\ SvcPollInterval(asked[k]) <= 0

PanicsOnlyForPollInterval ==
    main = "panic" =>
        \/ lEtag = 0 /\ ctxDone
        \/ lEtag # 0 /\ CreatePanics(log[lEtag])
        \/ lEtag # 0 /\ AsksForNoInterval(log[lEtag])

\* The task loop waits for the tasker, or for the lock of the Client.
LoopBlocked == loop \in {"enqueue", "close"}

\* The service loop waits for the tasker, or for the first signal of a task loop that
\* is blocked, is inside registerAgent, which does not look at the context, or has
\* returned.
ServiceBlocked ==
    main = "enqueue" \/ (main = "signal" /\ (LoopBlocked \/ loop \in {"register", "returned"}))

(***************************************************************************)
(* SIGTERM ends the agent, wherever its two loops are, unless the service  *)
(* loop is blocked for good: inside Enqueue, with a tasker that takes no   *)
(* task any more, or before the first signal. A task loop that is blocked, *)
(* even in the second Close of a Client, does not keep the agent alive     *)
(* once the service loop runs.                                             *)
(***************************************************************************)
SigtermEnds == <>ctxDone => <>~Alive \/ <>[]ServiceBlocked

(***************************************************************************)
(* The service loop starts although the first signal of the task loop may  *)
(* be given up before anyone receives it: the task loop comes back to      *)
(* signal again, because WatchConfig ends within its timeout even if the   *)
(* metadata never changes. Only a task loop that is blocked for ever, as   *)
(* by a second Close of its Client, never signals.                         *)
(***************************************************************************)
ServiceStarts ==
    <>[]LoopBlocked \/ (main = "signal" ~> (main = "serve" \/ ~Alive \/ ctxDone))

(***************************************************************************)
(* A readable version of the metadata that is not edited again is applied  *)
(* in the end, through any number of failed and unreadable answers, unless *)
(* the task loop is blocked for ever before it watches again.              *)
(***************************************************************************)
ConfigCatchesUp ==
    <>[]LoopBlocked \/
    ((Len(log) = MaxVersions /\ log[Len(log)].readable /\ main # "config")
        ~> (agentConfig.features = FeaturesOf(log[Len(log)]) \/ ~Alive \/ ctxDone))
=============================================================================
