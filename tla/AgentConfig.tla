---------------------------- MODULE AgentConfig ----------------------------
(***************************************************************************)
(* The configuration of the agent: how createConfigFromMetadata builds it  *)
(* from the project's and the instance's attributes, and how WatchConfig   *)
(* keeps it in step with the metadata server by long polls that name the   *)
(* last etag seen.                                                         *)
(*                                                                         *)
(* One goroutine at a time is inside WatchConfig: run, then runTaskLoop.   *)
(* Every other goroutine only reads agentConfig, as a whole, under its     *)
(* lock; the module AgentStart has those goroutines.                       *)
(***************************************************************************)
EXTENDS Naturals, Integers, Sequences

CONSTANTS
    Metadata,            \* contents the metadata server may have
    MaxVersions,         \* bound: versions of the metadata in a behaviour
    MaxUnmarshalErrors,  \* unmarshal errors in a row that are retried (3)
    MaxWebErrors,        \* web errors in one call that are retried (12)
    DebugFlag,           \* the flag -debug
    EndpointFlag,        \* the flag -endpoint
    MaxInt64,            \* the largest Int64, 2^63 - 1
    Minute,              \* time.Minute in nanoseconds, 6 * 10^10
    Unset,               \* a numeric attribute that is not there
    NotInt               \* one that Int64() refuses: no number, or too large

ASSUME BoundsAssumption ==
    MaxVersions \in Nat \ {0} /\ MaxUnmarshalErrors \in Nat /\ MaxWebErrors \in Nat
ASSUME FlagsAssumption == DebugFlag \in BOOLEAN
ASSUME NumbersAssumption ==
    /\ {Unset, NotInt} \cap Int = {}
    /\ MaxInt64 \in Nat /\ Minute \in Nat \ {0}
    /\ 10 * Minute <= MaxInt64

Features == {"tasks", "guestpolicies", "osinventory"}

Int64 == (-MaxInt64 - 1)..MaxInt64

\* A product of two Int64, which is kept modulo 2^64.
Wrap(n) ==
    LET half == MaxInt64 + 1
    IN IF n \in Int64 THEN n ELSE ((n + half) % (2 * half)) - half

\* The attributes of one level, project or instance. A string attribute is ""
\* when it is not there. `scalibr` stands for the five attributes that are read
\* the same way (scalibr, trace, guest attributes and the extended inventory);
\* `prerelease` is the union of the old and the new list.
Attributes(a) ==
    /\ {a.inventory, a.inventoryOld, a.enabled, a.debugOld, a.scalibr}
          \subseteq {"", "true", "false"}
    /\ a.prerelease \subseteq Features /\ a.disabled \subseteq Features
    /\ {a.poll, a.pollOld} \subseteq Int64 \cup {Unset, NotInt}
    /\ a.logLevel \in {"", "debug", "info"}
    /\ a.endpoint \in STRING /\ a.endpointOld \in STRING

\* What the server may hold: `readable` is FALSE if Unmarshal refuses it, as it
\* does for an attribute of the wrong type. `zone` stands for the five values
\* that identify the instance.
ASSUME MetadataAssumption ==
    \A md \in Metadata :
        /\ md.readable \in BOOLEAN
        /\ md.zone \in STRING
        /\ Attributes(md.project) /\ Attributes(md.instance)

-----------------------------------------------------------------------------
(* createConfigFromMetadata *)

osConfigPollIntervalDefault == 10
prodEndpoint == "prod"

parseBool(s) == s = "true"

\* The feature flags `on` after parseFeatures has read the list `fs`.
parseFeatures(on, fs, value) ==
    [f \in Features |-> IF f \in fs THEN value ELSE on[f]]

\* The feature flags after the attributes of one level, in the code's order.
LevelFeatures(on, a) ==
    LET inv == IF a.inventory # "" THEN a.inventory ELSE a.inventoryOld
        first == IF inv = "" THEN on ELSE [on EXCEPT !["osinventory"] = parseBool(inv)]
        pre == parseFeatures(first, a.prerelease, TRUE)
        all == IF a.enabled = "" THEN pre ELSE [f \in Features |-> parseBool(a.enabled)]
    IN parseFeatures(all, a.disabled, FALSE)

\* Variant of LevelPoll that does not look at the error of the conversion.
LevelPollUnchecked(n, a) ==
    LET p == IF a.poll # Unset THEN a.poll ELSE a.pollOld
    IN IF p = Unset THEN n ELSE IF p = NotInt THEN 0 ELSE p

\* The poll interval `n` after the attributes of one level.
LevelPoll(n, a) ==
    LET p == IF a.poll # Unset THEN a.poll ELSE a.pollOld
    IN IF p \in {Unset, NotInt} THEN n ELSE p

\* The instance's old attribute without the new one: the code dereferences the
\* new one, which is nil.
CreatePanics(md) == md.instance.poll = Unset /\ md.instance.pollOld # Unset

DebugEnabled(p, i) ==
    LET old == IF p.debugOld # "" THEN parseBool(p.debugOld) ELSE parseBool(i.debugOld)
        level == IF i.logLevel # "" THEN i.logLevel ELSE p.logLevel
    IN DebugFlag \/ IF level = "" THEN old ELSE level = "debug"

Switch(p, i) == parseBool(IF i # "" THEN i ELSE p)

\* The endpoint: its base, and the zone that replaces {zone} in the default one.
setSVCEndpoint(p, i, zone) ==
    LET set == SelectSeq(<<i.endpoint, i.endpointOld, p.endpoint, p.endpointOld>>,
                         LAMBDA e : e # "")
        base == IF EndpointFlag # prodEndpoint THEN EndpointFlag
                ELSE IF set = <<>> THEN prodEndpoint ELSE Head(set)
    IN [base |-> base, zone |-> IF base = prodEndpoint THEN zone ELSE ""]

\* Variant of InstanceZone that forgets the zone which is not in the answer.
InstanceZoneOfAnswer(md, old) == md.zone

InstanceZone(md, old) == IF md.zone # "" THEN md.zone ELSE old.zone

createConfigFromMetadata(md, old) ==
    LET p == md.project
        i == md.instance
        zone == InstanceZone(md, old)
    IN [features |-> LevelFeatures(LevelFeatures([f \in Features |-> FALSE], p), i),
        poll |-> LevelPoll(LevelPoll(osConfigPollIntervalDefault, p), i),
        debug |-> DebugEnabled(p, i),
        scalibr |-> Switch(p.scalibr, i.scalibr),
        zone |-> zone,
        endpoint |-> setSVCEndpoint(p, i, zone)]

\* The value of agentConfig before the first answer, &config{}.
ZeroConfig ==
    [features |-> [f \in Features |-> FALSE], poll |-> 0, debug |-> FALSE,
     scalibr |-> FALSE, zone |-> "", endpoint |-> [base |-> "", zone |-> ""]]

\* The interval as a time.Duration.
SvcPollInterval(minutes) == Wrap(minutes * Minute)

-----------------------------------------------------------------------------
(* WatchConfig *)

VARIABLES
    log,          \* the metadata server: its contents so far, the last is current
    lEtag,        \* the version last seen, 0 before the first
    agentConfig,  \* the configuration in force
    watch,        \* where WatchConfig is: "out" when nobody is inside
    webErrors,    \* webErrorCount
    webError,     \* the last getMetadata failed
    unmarshals,   \* unmarshalErrorCount
    fired,        \* the timeout of the call has passed
    ctxDone       \* the context of the process is cancelled

configVars == <<log, lEtag, agentConfig, watch, webErrors, webError, unmarshals,
                fired, ctxDone>>

ConfigTypeOK ==
    /\ log \in Seq(Metadata) /\ Len(log) \in 1..MaxVersions
    /\ lEtag \in 0..Len(log)
    /\ agentConfig.features \in [Features -> BOOLEAN]
    /\ agentConfig.poll \in Int64
    /\ watch \in {"out", "get", "wait", "waitBad", "ok", "error", "panic"}
    /\ webErrors \in 0..MaxWebErrors
    /\ webError \in BOOLEAN
    /\ unmarshals \in 0..MaxUnmarshalErrors
    /\ fired \in BOOLEAN
    /\ ctxDone \in BOOLEAN

ConfigInit ==
    /\ log \in {<<md>> : md \in Metadata}
    /\ lEtag = 0
    /\ agentConfig = ZeroConfig
    /\ watch = "out"
    /\ webErrors = 0 /\ unmarshals = 0
    /\ webError = FALSE
    /\ fired = FALSE
    /\ ctxDone = FALSE

\* A caller enters WatchConfig.
WatchConfig ==
    /\ watch = "out"
    /\ watch' = "get"
    /\ webErrors' = 0 /\ unmarshals' = 0
    /\ webError' = FALSE
    /\ fired' = FALSE
    /\ UNCHANGED <<log, lEtag, agentConfig, ctxDone>>

\* getMetadata fails to get an answer.
GetError ==
    /\ watch = "get"
    /\ webError' = TRUE
    /\ IF webErrors = MaxWebErrors
         THEN watch' = "error" /\ UNCHANGED webErrors
         ELSE watch' = "wait" /\ webErrors' = webErrors + 1
    /\ UNCHANGED <<log, lEtag, agentConfig, unmarshals, fired, ctxDone>>

\* Variant of GetUnreadable that remembers the version it could not read.
GetUnreadableSetsEtag ==
    /\ watch = "get"
    /\ webError' = FALSE
    /\ lEtag' = Len(log)
    /\ IF unmarshals = MaxUnmarshalErrors
         THEN watch' = "error" /\ UNCHANGED unmarshals
         ELSE watch' = "waitBad" /\ unmarshals' = unmarshals + 1
    /\ UNCHANGED <<log, agentConfig, webErrors, fired, ctxDone>>

\* An answer that Unmarshal refuses: a status other than 200 (getMetadata then
\* returns nothing, and no error), a body cut short, or metadata it cannot read.
GetUnreadable ==
    /\ watch = "get"
    /\ webError' = FALSE
    /\ IF unmarshals = MaxUnmarshalErrors
         THEN watch' = "error" /\ UNCHANGED unmarshals
         ELSE watch' = "waitBad" /\ unmarshals' = unmarshals + 1
    /\ UNCHANGED <<log, lEtag, agentConfig, webErrors, fired, ctxDone>>

\* The long poll ends without a change of the metadata.
GetUnchanged ==
    /\ watch = "get"
    /\ lEtag = Len(log)
    /\ webError' = FALSE
    /\ watch' = "wait"
    /\ UNCHANGED <<log, lEtag, agentConfig, webErrors, unmarshals, fired, ctxDone>>

\* Variant of AfterUpdate that goes on watching after a change.
AfterUpdateWatchOn(changed) == "wait"

\* WatchConfig returns once the configuration differs, and watches on otherwise.
AfterUpdate(changed) == IF changed THEN "ok" ELSE "wait"

\* The long poll brings a version that is new to the agent.
GetChanged ==
    /\ watch = "get"
    /\ lEtag # Len(log)
    /\ log[Len(log)].readable
    /\ webError' = FALSE
    /\ unmarshals' = 0
    /\ lEtag' = Len(log)
    /\ LET md == log[Len(log)]
           new == createConfigFromMetadata(md, agentConfig)
       IN IF CreatePanics(md)
            THEN watch' = "panic" /\ UNCHANGED agentConfig
            ELSE /\ agentConfig' = new
                 /\ watch' = AfterUpdate(new # agentConfig)
    /\ UNCHANGED <<log, webErrors, fired, ctxDone>>

\* Variant of Timeout that goes on with the next turn.
TimeoutGoesOn ==
    /\ watch \in {"wait", "waitBad"}
    /\ fired
    /\ watch' = "get"
    /\ UNCHANGED <<log, lEtag, agentConfig, webErrors, webError, unmarshals, fired, ctxDone>>

\* The select at the end of a turn. Each of its cases may be ready.
Timeout ==
    /\ watch \in {"wait", "waitBad"}
    /\ fired
    /\ watch' = IF watch = "waitBad" \/ webError THEN "error" ELSE "ok"
    /\ UNCHANGED <<log, lEtag, agentConfig, webErrors, webError, unmarshals, fired, ctxDone>>

Cancelled ==
    /\ watch \in {"wait", "waitBad"}
    /\ ctxDone
    /\ watch' = "ok"
    /\ UNCHANGED <<log, lEtag, agentConfig, webErrors, webError, unmarshals, fired, ctxDone>>

Tick ==
    /\ watch \in {"wait", "waitBad"}
    /\ watch' = "get"
    /\ UNCHANGED <<log, lEtag, agentConfig, webErrors, webError, unmarshals, fired, ctxDone>>

\* osConfigWatchConfigTimeout passes.
Fire ==
    /\ watch \in {"get", "wait", "waitBad"}
    /\ ~fired
    /\ fired' = TRUE
    /\ UNCHANGED <<log, lEtag, agentConfig, watch, webErrors, webError, unmarshals, ctxDone>>

\* The user edits the metadata.
MetadataChange ==
    /\ Len(log) < MaxVersions
    /\ \E md \in Metadata : log' = Append(log, md)
    /\ UNCHANGED <<lEtag, agentConfig, watch, webErrors, webError, unmarshals, fired, ctxDone>>

Sigterm ==
    /\ ~ctxDone
    /\ ctxDone' = TRUE
    /\ UNCHANGED <<log, lEtag, agentConfig, watch, webErrors, webError, unmarshals, fired>>

WatchStep ==
    \/ GetError \/ GetUnreadable \/ GetUnchanged \/ GetChanged
    \/ Timeout \/ Cancelled \/ Tick

-----------------------------------------------------------------------------
(***************************************************************************)
(* The attribute of the highest priority that says something about a       *)
(* feature decides it: the instance's before the project's, and at one     *)
(* level the disabled list, then enable-osconfig, then the prerelease list *)
(* and last the inventory attribute.                                       *)
(***************************************************************************)
Says(a, f) ==
    LET inv == IF a.inventory # "" THEN a.inventory ELSE a.inventoryOld
    IN (IF f \in a.disabled THEN <<FALSE>> ELSE <<>>)
       \o (IF a.enabled # "" THEN <<a.enabled = "true">> ELSE <<>>)
       \o (IF f \in a.prerelease THEN <<TRUE>> ELSE <<>>)
       \o (IF f = "osinventory" /\ inv # "" THEN <<inv = "true">> ELSE <<>>)

FeatureValue(md, f) ==
    LET said == Says(md.instance, f) \o Says(md.project, f)
    IN said # <<>> /\ Head(said)

FeaturesOf(md) == [f \in Features |-> FeatureValue(md, f)]

(***************************************************************************)
(* The features in force are those of the version whose etag the agent     *)
(* tells the server it has. The server answers only once the metadata      *)
(* differs from that version, so a version that was acknowledged and not   *)
(* applied would stay without effect until the next edit.                  *)
(***************************************************************************)
ConfigMatchesEtag ==
    lEtag # 0 /\ watch # "panic" => agentConfig.features = FeaturesOf(log[lEtag])

(***************************************************************************)
(* What identifies the instance, and the zone in the service's address     *)
(* with it, is never lost to an answer of the server that leaves it out.   *)
(***************************************************************************)
IdentityKept ==
    [][agentConfig.zone # "" =>
          /\ agentConfig'.zone # ""
          /\ agentConfig'.endpoint.base = prodEndpoint => agentConfig'.endpoint.zone # ""
      ]_agentConfig

=============================================================================
