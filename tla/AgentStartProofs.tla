-------------------------- MODULE AgentStartProofs --------------------------
(***************************************************************************)
(* Proofs about AgentConfig and AgentStart: the configuration in force is  *)
(* that of the acknowledged version of the metadata, the identity of the   *)
(* instance is kept, no client is open while tasks are disabled, and which *)
(* metadata makes the agent panic.                                         *)
(***************************************************************************)
EXTENDS AgentStart, SequenceTheorems, TLAPS

(***************************************************************************)
(* What is said first in two lists is what the first says, or the second   *)
(* if the first says nothing.                                              *)
(***************************************************************************)
LEMMA FirstOf ==
    ASSUME NEW s \in Seq(BOOLEAN), NEW t \in Seq(BOOLEAN)
    PROVE  /\ s \o t \in Seq(BOOLEAN)
           /\ s \o t = <<>> <=> s = <<>> /\ t = <<>>
           /\ s # <<>> => Head(s \o t) = Head(s)
           /\ s = <<>> /\ t # <<>> => Head(s \o t) = Head(t)
<1>1. s \o t \in Seq(BOOLEAN) /\ (s = <<>> => s \o t = t)
  BY ConcatProperties, ConcatEmptySeq
<1>2. s \o t = <<>> <=> s = <<>> /\ t = <<>>
  BY ConcatEqualIffEmpty
<1>3. ASSUME s # <<>> PROVE Head(s \o t) = Head(s)
  <2>1. Len(s) \in Nat \ {0} /\ Len(t) \in Nat
    BY <1>3, EmptySeq
  <2> QED BY <2>1, ConcatProperties
<1> QED BY <1>1, <1>2, <1>3

(***************************************************************************)
(* A list with one entry says that entry.                                  *)
(***************************************************************************)
LEMMA Singleton ==
    ASSUME NEW b \in BOOLEAN
    PROVE  <<b>> \in Seq(BOOLEAN) /\ <<b>> # <<>> /\ Head(<<b>>) = b
<1>1. <<b>> \in Seq(BOOLEAN)
  OBVIOUS
<1>2. Len(<<b>>) = 1 /\ Len(<<>>) = 0 
  OBVIOUS
<1>3. Head(<<b>>) = b
  OBVIOUS
<1> QED BY <1>1, <1>2, <1>3

(***************************************************************************)
(* The attributes of one level decide a feature as the first of what they  *)
(* say about it, and leave it alone if they say nothing: the code's        *)
(* sequence of overwriting assignments is the order of priority.           *)
(***************************************************************************)
LEMMA LevelSays ==
    ASSUME NEW a, Attributes(a), NEW on \in [Features -> BOOLEAN], NEW f \in Features
    PROVE  /\ LevelFeatures(on, a) \in [Features -> BOOLEAN]
           /\ Says(a, f) \in Seq(BOOLEAN)
           /\ LevelFeatures(on, a)[f] = IF Says(a, f) = <<>> THEN on[f] ELSE Head(Says(a, f))
<1> DEFINE inv == IF a.inventory # "" THEN a.inventory ELSE a.inventoryOld
           s1 == IF f \in a.disabled THEN <<FALSE>> ELSE <<>>
           s2 == IF a.enabled # "" THEN <<a.enabled = "true">> ELSE <<>>
           s3 == IF f \in a.prerelease THEN <<TRUE>> ELSE <<>>
           s4 == IF f = "osinventory" /\ inv # "" THEN <<inv = "true">> ELSE <<>>
<1>1. /\ s1 \in Seq(BOOLEAN) /\ s2 \in Seq(BOOLEAN) /\ s3 \in Seq(BOOLEAN) /\ s4 \in Seq(BOOLEAN)
  BY Singleton, EmptySeq
<1>2. /\ s1 = <<>> <=> f \notin a.disabled
      /\ s1 # <<>> => Head(s1) = FALSE
      /\ s2 = <<>> <=> a.enabled = ""
      /\ s2 # <<>> => Head(s2) = (a.enabled = "true")
      /\ s3 = <<>> <=> f \notin a.prerelease
      /\ s3 # <<>> => Head(s3) = TRUE
      /\ s4 = <<>> <=> ~(f = "osinventory" /\ inv # "")
      /\ s4 # <<>> => Head(s4) = (inv = "true")
  BY Singleton, EmptySeq
<1>3. Says(a, f) = ((s1 \o s2) \o s3) \o s4
  BY DEF Says
<1> HIDE DEF s1, s2, s3, s4
<1>4. /\ s1 \o s2 \in Seq(BOOLEAN) /\ (s1 \o s2) \o s3 \in Seq(BOOLEAN)
      /\ Says(a, f) \in Seq(BOOLEAN)
  BY <1>1, <1>3, FirstOf
<1>5. /\ Says(a, f) = <<>> <=> s1 = <<>> /\ s2 = <<>> /\ s3 = <<>> /\ s4 = <<>>
      /\ Says(a, f) # <<>> =>
           Head(Says(a, f)) = IF s1 # <<>> THEN Head(s1) ELSE IF s2 # <<>> THEN Head(s2)
                              ELSE IF s3 # <<>> THEN Head(s3) ELSE Head(s4)
  <2>1. /\ s1 \o s2 = <<>> <=> s1 = <<>> /\ s2 = <<>>
        /\ s1 \o s2 # <<>> => Head(s1 \o s2) = IF s1 # <<>> THEN Head(s1) ELSE Head(s2)
    BY <1>1, FirstOf
  <2>2. /\ (s1 \o s2) \o s3 = <<>> <=> s1 \o s2 = <<>> /\ s3 = <<>>
        /\ (s1 \o s2) \o s3 # <<>> =>
             Head((s1 \o s2) \o s3) = IF s1 \o s2 # <<>> THEN Head(s1 \o s2) ELSE Head(s3)
    BY <1>1, <1>4, FirstOf
  <2>3. /\ Says(a, f) = <<>> <=> (s1 \o s2) \o s3 = <<>> /\ s4 = <<>>
        /\ Says(a, f) # <<>> =>
             Head(Says(a, f)) = IF (s1 \o s2) \o s3 # <<>> THEN Head((s1 \o s2) \o s3) ELSE Head(s4)
    BY <1>1, <1>3, <1>4, FirstOf
  <2> QED BY <2>1, <2>2, <2>3
<1> DEFINE first == IF inv = "" THEN on ELSE [on EXCEPT !["osinventory"] = parseBool(inv)]
           pre == parseFeatures(first, a.prerelease, TRUE)
           all == IF a.enabled = "" THEN pre ELSE [g \in Features |-> parseBool(a.enabled)]
<1>6. /\ first \in [Features -> BOOLEAN] 
      /\ first[f] = IF f = "osinventory" /\ inv # "" THEN inv = "true" ELSE on[f]
  BY DEF parseBool, Features
<1>7. /\ pre \in [Features -> BOOLEAN]
      /\ pre[f] = IF f \in a.prerelease THEN TRUE ELSE first[f]
  BY <1>6 DEF parseFeatures
<1>8. /\ all \in [Features -> BOOLEAN]
      /\ all[f] = IF a.enabled = "" THEN pre[f] ELSE a.enabled = "true"
  BY <1>7 DEF parseBool
<1>9. LevelFeatures(on, a) = parseFeatures(all, a.disabled, FALSE)
  BY DEF LevelFeatures
<1> HIDE DEF all
<1>10. /\ LevelFeatures(on, a) \in [Features -> BOOLEAN]
       /\ LevelFeatures(on, a)[f] = IF f \in a.disabled THEN FALSE ELSE all[f]
  BY <1>8, <1>9 DEF parseFeatures
<1> QED BY <1>2, <1>4, <1>5, <1>6, <1>7, <1>8, <1>10

(***************************************************************************)
(* createConfigFromMetadata computes the features by priority, for every   *)
(* readable content of the metadata.                                       *)
(***************************************************************************)
LEMMA FeaturesByPriority ==
    ASSUME NEW md \in Metadata, NEW old
    PROVE  /\ createConfigFromMetadata(md, old).features = FeaturesOf(md)
           /\ FeaturesOf(md) \in [Features -> BOOLEAN]
<1> DEFINE none == [f \in Features |-> FALSE]
           project == LevelFeatures(none, md.project)
           both == LevelFeatures(project, md.instance)
<1>1. Attributes(md.project) /\ Attributes(md.instance)
  BY MetadataAssumption
<1>2. project \in [Features -> BOOLEAN] /\ both \in [Features -> BOOLEAN]
  <2>1. "tasks" \in Features /\ none \in [Features -> BOOLEAN]
    BY DEF Features
  <2>2. project \in [Features -> BOOLEAN]
    BY <1>1, <2>1, LevelSays
  <2> HIDE DEF project
  <2> QED BY <1>1, <2>1, <2>2, LevelSays
<1>3. ASSUME NEW f \in Features PROVE both[f] = FeatureValue(md, f)
  <2> DEFINE si == Says(md.instance, f)
             sp == Says(md.project, f)
  <2>1. /\ sp \in Seq(BOOLEAN)
        /\ project[f] = IF sp = <<>> THEN FALSE ELSE Head(sp)
    <3>1. none \in [Features -> BOOLEAN] /\ none[f] = FALSE
      OBVIOUS
    <3> HIDE DEF none
    <3> QED BY <1>1, <3>1, LevelSays
  <2>2. /\ si \in Seq(BOOLEAN)
        /\ both[f] = IF si = <<>> THEN project[f] ELSE Head(si)
    <3> HIDE DEF project
    <3> QED BY <1>1, <1>2, LevelSays
  <2>3. FeatureValue(md, f) = (si \o sp # <<>> /\ Head(si \o sp))
    BY DEF FeatureValue
  <2> HIDE DEF si, sp, project, both
  <2>4. CASE si # <<>>
    <3>1. Head(si) \in BOOLEAN
      BY <2>2, <2>4, HeadTailProperties
    <3> QED BY <2>1, <2>2, <2>3, <2>4, <3>1, FirstOf
  <2>5. CASE si = <<>> /\ sp # <<>>
    <3>1. Head(sp) \in BOOLEAN
      BY <2>1, <2>5, HeadTailProperties
    <3> QED BY <2>1, <2>2, <2>3, <2>5, <3>1, FirstOf
  <2>6. CASE si = <<>> /\ sp = <<>>
    BY <2>1, <2>2, <2>3, <2>6, FirstOf
  <2> QED BY <2>4, <2>5, <2>6
<1>4. createConfigFromMetadata(md, old).features = both
  BY DEF createConfigFromMetadata
<1> HIDE DEF both
<1> QED BY <1>2, <1>3, <1>4 DEF FeaturesOf

\* The poll interval that is read from the metadata.
PollOf(md) == LevelPoll(LevelPoll(osConfigPollIntervalDefault, md.project), md.instance)

(***************************************************************************)
(* The poll interval that is read is an Int64, whatever the attributes     *)
(* hold.                                                                   *)
(***************************************************************************)
LEMMA PollIsInt64 ==
    ASSUME NEW md \in Metadata
    PROVE  PollOf(md) \in Int64
<1>1. Attributes(md.project) /\ Attributes(md.instance)
  BY MetadataAssumption
<1>2. ASSUME NEW n \in Int64, NEW a, Attributes(a) PROVE LevelPoll(n, a) \in Int64
  BY <1>2 DEF Attributes, LevelPoll
<1>3. 10 \in Int64
  BY NumbersAssumption DEF Int64
<1> QED BY <1>1, <1>2, <1>3 DEF PollOf, osConfigPollIntervalDefault

(***************************************************************************)
(* The poll interval is read as no positive duration only if that is what  *)
(* is asked for.                                                           *)
(***************************************************************************)
LEMMA NoIntervalIsAsked ==
    ASSUME NEW md \in Metadata, ~CreatePanics(md), SvcPollInterval(PollOf(md)) <= 0
    PROVE  AsksForNoInterval(md)
<1> DEFINE p == IF md.project.poll # Unset THEN md.project.poll ELSE md.project.pollOld
           i == md.instance.poll
           none == {Unset, NotInt}
           asked == <<i, p>>
<1>1. PollOf(md) = IF i \notin none THEN i
                   ELSE IF p \notin none THEN p ELSE osConfigPollIntervalDefault
  BY DEF PollOf, LevelPoll, CreatePanics
<1>2. \/ i \notin none /\ SvcPollInterval(i) <= 0
      \/ i \in none /\ p \notin none /\ SvcPollInterval(p) <= 0
  <2>1. CASE i \notin none
    BY <1>1, <2>1
  <2>2. CASE i \in none /\ p \notin none
    BY <1>1, <2>2
  <2>3. CASE i \in none /\ p \in none
    <3>1. SvcPollInterval(osConfigPollIntervalDefault) <= 0
      BY <1>1, <2>3
    <3>2. SvcPollInterval(osConfigPollIntervalDefault) = 10 * Minute /\ 10 * Minute > 0
          /\ 10 * Minute \in Int
      BY NumbersAssumption DEF SvcPollInterval, Wrap, Int64, osConfigPollIntervalDefault
    <3> QED BY <3>1, <3>2
  <2> QED BY <2>1, <2>2, <2>3
<1>3. asked[1] = i /\ asked[2] = p
  OBVIOUS
<1> HIDE DEF asked, p, i
<1>4. \E k \in 1..2 : /\ \A j \in 1..(k - 1) : asked[j] \in none
                      /\ asked[k] \notin none
                      /\ SvcPollInterval(asked[k]) <= 0
  <2>1. CASE i \notin none /\ SvcPollInterval(i) <= 0
    <3>1. \A j \in 1..(1 - 1) : asked[j] \in none
      OBVIOUS
    <3> QED BY <1>3, <2>1, <3>1
  <2>2. CASE i \in none /\ p \notin none /\ SvcPollInterval(p) <= 0
    <3>1. \A j \in 1..(2 - 1) : asked[j] \in none
      BY <1>3, <2>2
    <3> QED BY <1>3, <2>2, <3>1
  <2> QED BY <1>2, <2>1, <2>2
<1> QED BY <1>4 DEF AsksForNoInterval, asked, p, i

-----------------------------------------------------------------------------
\* Only the first WatchConfig of run, and later the one of runTaskLoop, is inside.
CallerInv ==
    /\ loop \notin {"off", "watch"} => watch = "out"
    /\ main = "config" => loop = "off"
    /\ main = "start" /\ loop = "off" => watch = "out"
    /\ loop = "off" => main \in {"config", "start", "fatal", "panic"}

\* What was read of the version last seen.
EtagInv ==
    /\ ConfigMatchesEtag
    /\ lEtag # 0 /\ watch # "panic" =>
          ~CreatePanics(log[lEtag]) /\ agentConfig.poll = PollOf(log[lEtag])
    /\ watch = "panic" => lEtag # 0 /\ CreatePanics(log[lEtag])

\* Nobody goes on without a configuration unless the context is done.
FirstInv ==
    /\ watch = "wait" /\ ~webError => lEtag # 0
    /\ watch = "ok" => lEtag # 0 \/ ctxDone
    /\ main \notin {"config", "fatal", "panic"} => lEtag # 0 \/ ctxDone

\* The client follows the configuration before the task loop signals.
ClientInv ==
    /\ loop \in {"enqueue", "signal"} /\ client = "open" => agentConfig.features["tasks"]
    /\ NoClientWhileDisabled

IInv == TypeOK /\ CallerInv /\ EtagInv /\ FirstInv /\ ClientInv /\ PanicsOnlyForPollInterval

(***************************************************************************)
(* The agent starts in the invariant.                                      *)
(***************************************************************************)
LEMMA InitIInv == Init => IInv
<1> SUFFICES ASSUME Init PROVE IInv
  OBVIOUS
<1>1. PICK md \in Metadata : log = <<md>>
  BY DEF Init, ConfigInit
<1>2. log \in Seq(Metadata) /\ Len(log) = 1
  BY <1>1
<1>3. ZeroConfig.features \in [Features -> BOOLEAN] /\ ZeroConfig.poll \in Int64
  BY NumbersAssumption DEF ZeroConfig, Int64
<1>4. lEtag \in 0..Len(log) /\ webErrors \in 0..MaxWebErrors /\ unmarshals \in 0..MaxUnmarshalErrors
      /\ Len(log) \in 1..MaxVersions
  BY <1>2, BoundsAssumption DEF Init, ConfigInit
<1>5. webError \in BOOLEAN /\ fired \in BOOLEAN /\ ctxDone \in BOOLEAN /\ agentConfig = ZeroConfig /\ watch = "out"
  BY DEF Init, ConfigInit
<1>6. TypeOK
  BY <1>2, <1>3, <1>4, <1>5 DEF Init, TypeOK, ConfigTypeOK, Alive
<1> QED
  BY <1>6 DEF Init, ConfigInit, IInv, CallerInv, EtagInv, FirstInv, ClientInv,
     ConfigMatchesEtag, NoClientWhileDisabled, PanicsOnlyForPollInterval

(***************************************************************************)
(* The first call and the steps inside WatchConfig that leave the          *)
(* configuration alone keep the invariant, and so do the timer, SIGTERM    *)
(* and an edit of the metadata.                                            *)
(***************************************************************************)
LEMMA QuietIInv ==
    ASSUME IInv, Alive, UNCHANGED startVars,
           \/ main = "config" /\ WatchConfig
           \/ GetError \/ GetUnreadable \/ GetUnchanged \/ Timeout \/ Cancelled \/ Tick
           \/ MetadataChange \/ Sigterm \/ Fire
    PROVE  IInv'
<1> USE DEF IInv, startVars
<1>1. CASE main = "config" /\ WatchConfig
  <2>b. webError' \in BOOLEAN /\ fired' \in BOOLEAN /\ ctxDone' \in BOOLEAN
    BY <1>1 DEF TypeOK, ConfigTypeOK, WatchConfig
  <2>c. webErrors' \in 0..MaxWebErrors /\ unmarshals' \in 0..MaxUnmarshalErrors
    BY <1>1, BoundsAssumption DEF TypeOK, ConfigTypeOK, WatchConfig
  <2>d. /\ log' \in Seq(Metadata) /\ Len(log') \in 1..MaxVersions /\ lEtag' \in 0..Len(log')
        /\ UNCHANGED agentConfig
    BY <1>1 DEF TypeOK, ConfigTypeOK, WatchConfig
  <2>1. TypeOK'
    BY <1>1, <2>b, <2>c, <2>d DEF TypeOK, ConfigTypeOK, WatchConfig, Alive, CallerInv
  <2> QED
    BY <1>1, <2>1 DEF WatchConfig, CallerInv, EtagInv, FirstInv, ClientInv,
       ConfigMatchesEtag, NoClientWhileDisabled, PanicsOnlyForPollInterval, Alive
<1>2. CASE GetError
  <2>b. webError' \in BOOLEAN /\ fired' \in BOOLEAN /\ ctxDone' \in BOOLEAN
    BY <1>2 DEF TypeOK, ConfigTypeOK, GetError
  <2>c. webErrors' \in 0..MaxWebErrors /\ unmarshals' \in 0..MaxUnmarshalErrors
    BY <1>2, BoundsAssumption DEF TypeOK, ConfigTypeOK, GetError
  <2>d. /\ log' \in Seq(Metadata) /\ Len(log') \in 1..MaxVersions /\ lEtag' \in 0..Len(log')
        /\ UNCHANGED agentConfig
    BY <1>2 DEF TypeOK, ConfigTypeOK, GetError
  <2>1. TypeOK'
    BY <1>2, <2>b, <2>c, <2>d DEF TypeOK, ConfigTypeOK, GetError, Alive
  <2> QED
    BY <1>2, <2>1 DEF GetError, TypeOK, ConfigTypeOK, CallerInv, EtagInv, FirstInv, ClientInv,
       ConfigMatchesEtag, NoClientWhileDisabled, PanicsOnlyForPollInterval, Alive
<1>3. CASE GetUnreadable
  <2>b. webError' \in BOOLEAN /\ fired' \in BOOLEAN /\ ctxDone' \in BOOLEAN
    BY <1>3 DEF TypeOK, ConfigTypeOK, GetUnreadable
  <2>c. webErrors' \in 0..MaxWebErrors /\ unmarshals' \in 0..MaxUnmarshalErrors
    BY <1>3, BoundsAssumption DEF TypeOK, ConfigTypeOK, GetUnreadable
  <2>d. /\ log' \in Seq(Metadata) /\ Len(log') \in 1..MaxVersions /\ lEtag' \in 0..Len(log')
        /\ UNCHANGED agentConfig
    BY <1>3 DEF TypeOK, ConfigTypeOK, GetUnreadable
  <2>1. TypeOK'
    BY <1>3, <2>b, <2>c, <2>d DEF TypeOK, ConfigTypeOK, GetUnreadable, Alive
  <2> QED
    BY <1>3, <2>1 DEF GetUnreadable, CallerInv, EtagInv, FirstInv, ClientInv,
       ConfigMatchesEtag, NoClientWhileDisabled, PanicsOnlyForPollInterval, Alive
<1>4. CASE GetUnchanged
  <2>1. TypeOK'
    BY <1>4 DEF TypeOK, ConfigTypeOK, GetUnchanged, Alive
  <2> QED
    BY <1>4, <2>1 DEF GetUnchanged, TypeOK, ConfigTypeOK, CallerInv, EtagInv, FirstInv, ClientInv,
       ConfigMatchesEtag, NoClientWhileDisabled, PanicsOnlyForPollInterval, Alive
<1>5. CASE Timeout \/ Cancelled \/ Tick
  <2>1. TypeOK'
    BY <1>5 DEF TypeOK, ConfigTypeOK, Timeout, Cancelled, Tick, Alive
  <2> QED
    BY <1>5, <2>1 DEF Timeout, Cancelled, Tick, CallerInv, EtagInv, FirstInv, ClientInv,
       ConfigMatchesEtag, NoClientWhileDisabled, PanicsOnlyForPollInterval, Alive
<1>6. CASE MetadataChange
  <2>1. PICK md \in Metadata : log' = Append(log, md)
    BY <1>6 DEF MetadataChange
  <2>2. /\ log' \in Seq(Metadata) /\ Len(log') = Len(log) + 1
        /\ lEtag # 0 => log'[lEtag] = log[lEtag]
    BY <2>1 DEF TypeOK, ConfigTypeOK
  <2>b. webError' \in BOOLEAN /\ fired' \in BOOLEAN /\ ctxDone' \in BOOLEAN
    BY <1>6 DEF TypeOK, ConfigTypeOK, MetadataChange
  <2>c. webErrors' \in 0..MaxWebErrors /\ unmarshals' \in 0..MaxUnmarshalErrors
    BY <1>6, BoundsAssumption DEF TypeOK, ConfigTypeOK, MetadataChange
  <2>d. /\ log' \in Seq(Metadata) /\ Len(log') \in 1..MaxVersions /\ lEtag' \in 0..Len(log')
        /\ UNCHANGED agentConfig
    <3>1. Len(log) \in 1..MaxVersions /\ Len(log) < MaxVersions /\ UNCHANGED <<lEtag, agentConfig>>
          /\ lEtag \in 0..Len(log)
      BY <1>6 DEF TypeOK, ConfigTypeOK, MetadataChange
    <3> QED BY <2>2, <3>1, BoundsAssumption
  <2>3. TypeOK'
    BY <1>6, <2>b, <2>c, <2>d DEF TypeOK, ConfigTypeOK, MetadataChange, Alive
  <2> QED
    BY <1>6, <2>2, <2>3 DEF MetadataChange, CallerInv, EtagInv, FirstInv, ClientInv,
       ConfigMatchesEtag, NoClientWhileDisabled, PanicsOnlyForPollInterval, Alive
<1>7. CASE Sigterm \/ Fire
  <2>b. webError' \in BOOLEAN /\ fired' \in BOOLEAN /\ ctxDone' \in BOOLEAN
    BY <1>7 DEF TypeOK, ConfigTypeOK, Sigterm, Fire
  <2>c. webErrors' \in 0..MaxWebErrors /\ unmarshals' \in 0..MaxUnmarshalErrors
    BY <1>7, BoundsAssumption DEF TypeOK, ConfigTypeOK, Sigterm, Fire
  <2>d. /\ log' \in Seq(Metadata) /\ Len(log') \in 1..MaxVersions /\ lEtag' \in 0..Len(log')
        /\ UNCHANGED agentConfig
    BY <1>7 DEF TypeOK, ConfigTypeOK, Sigterm, Fire
  <2>1. TypeOK'
    BY <1>7, <2>b, <2>c, <2>d DEF TypeOK, ConfigTypeOK, Sigterm, Fire, Alive
  <2> QED
    BY <1>7, <2>1 DEF Sigterm, Fire, CallerInv, EtagInv, FirstInv, ClientInv,
       ConfigMatchesEtag, NoClientWhileDisabled, PanicsOnlyForPollInterval, Alive
<1> QED BY <1>1, <1>2, <1>3, <1>4, <1>5, <1>6, <1>7

(***************************************************************************)
(* The step that applies a new version keeps the invariant.                *)
(***************************************************************************)
LEMMA ChangedIInv ==
    ASSUME IInv, Alive, UNCHANGED startVars, GetChanged
    PROVE  IInv'
<1> USE DEF IInv, startVars
<1> DEFINE md == log[Len(log)]
           new == createConfigFromMetadata(md, agentConfig)
<1>1. md \in Metadata
  BY DEF TypeOK, ConfigTypeOK
<1>2. new.features = FeaturesOf(md) /\ FeaturesOf(md) \in [Features -> BOOLEAN]
  BY <1>1, FeaturesByPriority
<1>3. new.poll = PollOf(md) /\ PollOf(md) \in Int64
  BY <1>1, PollIsInt64 DEF createConfigFromMetadata, PollOf
<1>4. /\ watch = "get" /\ lEtag' = Len(log) /\ lEtag' # 0 /\ unmarshals' = 0 /\ webError' = FALSE
      /\ UNCHANGED <<log, webErrors, fired, ctxDone, main, loop, client>>
  BY DEF GetChanged, TypeOK, ConfigTypeOK
<1>5. \/ CreatePanics(md) /\ watch' = "panic" /\ UNCHANGED agentConfig
      \/ ~CreatePanics(md) /\ agentConfig' = new /\ watch' = "ok"
      \/ ~CreatePanics(md) /\ agentConfig' = new /\ new = agentConfig /\ watch' = "wait"
  BY DEF GetChanged, AfterUpdate
<1> HIDE DEF new
<1>10. agentConfig.features \in [Features -> BOOLEAN] /\ agentConfig.poll \in Int64
  BY DEF TypeOK, ConfigTypeOK
<1>11. agentConfig'.features \in [Features -> BOOLEAN] /\ agentConfig'.poll \in Int64
  BY <1>2, <1>3, <1>5, <1>10
<1>12. webError' \in BOOLEAN /\ fired' \in BOOLEAN /\ ctxDone' \in BOOLEAN
  BY <1>4 DEF TypeOK, ConfigTypeOK
<1>6. TypeOK'
  BY <1>11, <1>12, <1>4, <1>5, BoundsAssumption DEF TypeOK, ConfigTypeOK, Alive
<1>7. EtagInv'
  BY <1>2, <1>3, <1>4, <1>5 DEF EtagInv, ConfigMatchesEtag
<1>8. CallerInv' /\ FirstInv'
  BY <1>4, <1>5 DEF CallerInv, FirstInv
<1>9. ClientInv'
  BY <1>4, <1>5 DEF ClientInv, NoClientWhileDisabled, CallerInv
<1> QED BY <1>4, <1>6, <1>7, <1>8, <1>9 DEF PanicsOnlyForPollInterval, Alive

(***************************************************************************)
(* The steps of run and runTaskLoop outside WatchConfig keep the           *)
(* invariant.                                                              *)
(***************************************************************************)
LEMMA LoopsIInv ==
    ASSUME IInv, Alive,
           \/ Panic \/ FirstConfig \/ StartTaskLoop \/ AwaitSignal \/ MakeTicker
           \/ ServiceEnqueue \/ ServiceEnqueued \/ ServiceReturns
           \/ LoopTop \/ Registered \/ LoopClient \/ LoopEnqueued \/ LoopCloses
           \/ ClientCloses \/ LoopSignal \/ LoopWatched
    PROVE  IInv'
<1> USE DEF IInv
<1>1. CASE Panic
  <2>1. TypeOK'
    BY <1>1, BoundsAssumption DEF TypeOK, ConfigTypeOK, Alive, CallerInv, configVars, Panic
  <2>2. CallerInv' /\ FirstInv' /\ ClientInv'
    BY <1>1 DEF TypeOK, CallerInv, FirstInv, ClientInv, NoClientWhileDisabled, Alive, configVars, Panic
  <2>3. EtagInv' /\ PanicsOnlyForPollInterval'
    BY <1>1 DEF EtagInv, ConfigMatchesEtag, PanicsOnlyForPollInterval, Alive, configVars, Panic
  <2> QED BY <2>1, <2>2, <2>3
<1>2. CASE FirstConfig
  <2>1. TypeOK'
    BY <1>2, BoundsAssumption DEF TypeOK, ConfigTypeOK, Alive, CallerInv, configVars, FirstConfig, LeaveWatch
  <2>2. CallerInv' /\ FirstInv' /\ ClientInv'
    BY <1>2 DEF TypeOK, CallerInv, FirstInv, ClientInv, NoClientWhileDisabled, Alive, configVars, FirstConfig, LeaveWatch
  <2>3. EtagInv' /\ PanicsOnlyForPollInterval'
    BY <1>2 DEF EtagInv, ConfigMatchesEtag, PanicsOnlyForPollInterval, Alive, configVars, FirstConfig, LeaveWatch
  <2> QED BY <2>1, <2>2, <2>3
<1>3. CASE StartTaskLoop
  <2>1. TypeOK'
    BY <1>3, BoundsAssumption DEF TypeOK, ConfigTypeOK, Alive, CallerInv, configVars, StartTaskLoop
  <2>2. CallerInv' /\ FirstInv' /\ ClientInv'
    BY <1>3 DEF TypeOK, CallerInv, FirstInv, ClientInv, NoClientWhileDisabled, Alive, configVars, StartTaskLoop
  <2>3. EtagInv' /\ PanicsOnlyForPollInterval'
    BY <1>3 DEF EtagInv, ConfigMatchesEtag, PanicsOnlyForPollInterval, Alive, configVars, StartTaskLoop
  <2> QED BY <2>1, <2>2, <2>3
<1>4. CASE AwaitSignal
  <2>1. TypeOK'
    BY <1>4, BoundsAssumption DEF TypeOK, ConfigTypeOK, Alive, CallerInv, configVars, AwaitSignal
  <2>2. CallerInv' /\ FirstInv' /\ ClientInv'
    BY <1>4 DEF TypeOK, CallerInv, FirstInv, ClientInv, NoClientWhileDisabled, Alive, configVars, AwaitSignal
  <2>3. EtagInv' /\ PanicsOnlyForPollInterval'
    BY <1>4 DEF EtagInv, ConfigMatchesEtag, PanicsOnlyForPollInterval, Alive, configVars, AwaitSignal
  <2> QED BY <2>1, <2>2, <2>3
<1>5. CASE MakeTicker
  <2>1. TypeOK'
    BY <1>5, BoundsAssumption DEF TypeOK, ConfigTypeOK, Alive, CallerInv, configVars, MakeTicker
  <2>2. CallerInv' /\ FirstInv' /\ ClientInv'
    BY <1>5 DEF TypeOK, CallerInv, FirstInv, ClientInv, NoClientWhileDisabled, Alive, configVars, MakeTicker
  <2>3. EtagInv'
    BY <1>5 DEF EtagInv, ConfigMatchesEtag, configVars, MakeTicker
  <2>4. PanicsOnlyForPollInterval'
    <3>1. ASSUME SvcPollInterval(agentConfig.poll) <= 0, lEtag # 0, watch # "panic"
          PROVE  AsksForNoInterval(log[lEtag])
      BY <3>1, NoIntervalIsAsked DEF EtagInv, TypeOK, ConfigTypeOK
    <3> QED
      BY <1>5, <3>1 DEF EtagInv, FirstInv, PanicsOnlyForPollInterval, configVars, MakeTicker, Alive
  <2> QED BY <2>1, <2>2, <2>3, <2>4
<1>6. CASE ServiceReturns
  <2>1. TypeOK'
    BY <1>6, BoundsAssumption DEF TypeOK, ConfigTypeOK, Alive, CallerInv, configVars, ServiceReturns
  <2>2. CallerInv' /\ FirstInv' /\ ClientInv'
    BY <1>6 DEF TypeOK, CallerInv, FirstInv, ClientInv, NoClientWhileDisabled, Alive, configVars, ServiceReturns
  <2>3. EtagInv' /\ PanicsOnlyForPollInterval'
    BY <1>6 DEF EtagInv, ConfigMatchesEtag, PanicsOnlyForPollInterval, Alive, configVars, ServiceReturns
  <2> QED BY <2>1, <2>2, <2>3
<1>7. CASE LoopTop
  <2>1. TypeOK'
    BY <1>7, BoundsAssumption DEF TypeOK, ConfigTypeOK, Alive, CallerInv, configVars, LoopTop
  <2>2. CallerInv' /\ FirstInv' /\ ClientInv'
    BY <1>7 DEF TypeOK, CallerInv, FirstInv, ClientInv, NoClientWhileDisabled, Alive, configVars, LoopTop
  <2>3. EtagInv' /\ PanicsOnlyForPollInterval'
    BY <1>7 DEF EtagInv, ConfigMatchesEtag, PanicsOnlyForPollInterval, Alive, configVars, LoopTop
  <2> QED BY <2>1, <2>2, <2>3
<1>8. CASE Registered
  <2>1. TypeOK'
    BY <1>8, BoundsAssumption DEF TypeOK, ConfigTypeOK, Alive, CallerInv, configVars, Registered
  <2>2. CallerInv' /\ FirstInv' /\ ClientInv'
    BY <1>8 DEF TypeOK, CallerInv, FirstInv, ClientInv, NoClientWhileDisabled, Alive, configVars, Registered
  <2>3. EtagInv' /\ PanicsOnlyForPollInterval'
    BY <1>8 DEF EtagInv, ConfigMatchesEtag, PanicsOnlyForPollInterval, Alive, configVars, Registered
  <2> QED BY <2>1, <2>2, <2>3
<1>9. CASE LoopClient
  <2>1. TypeOK'
    BY <1>9, BoundsAssumption DEF TypeOK, ConfigTypeOK, Alive, CallerInv, configVars, LoopClient, LoopOpens, LoopCalls, LoopKeeps
  <2>2. CallerInv' /\ FirstInv' /\ ClientInv'
    BY <1>9 DEF TypeOK, CallerInv, FirstInv, ClientInv, NoClientWhileDisabled, Alive, configVars, LoopClient, LoopOpens, LoopCalls, LoopKeeps
  <2>3. EtagInv' /\ PanicsOnlyForPollInterval'
    BY <1>9 DEF EtagInv, ConfigMatchesEtag, PanicsOnlyForPollInterval, Alive, configVars, LoopClient, LoopOpens, LoopCalls, LoopKeeps
  <2> QED BY <2>1, <2>2, <2>3
<1>10. CASE ClientCloses
  <2>1. TypeOK'
    BY <1>10, BoundsAssumption DEF TypeOK, ConfigTypeOK, Alive, CallerInv, configVars, ClientCloses
  <2>2. CallerInv' /\ FirstInv' /\ ClientInv'
    BY <1>10 DEF TypeOK, CallerInv, FirstInv, ClientInv, NoClientWhileDisabled, Alive, configVars, ClientCloses
  <2>3. EtagInv' /\ PanicsOnlyForPollInterval'
    BY <1>10 DEF EtagInv, ConfigMatchesEtag, PanicsOnlyForPollInterval, Alive, configVars, ClientCloses
  <2> QED BY <2>1, <2>2, <2>3
<1>11. CASE LoopSignal
  <2>b. webError' \in BOOLEAN /\ fired' \in BOOLEAN /\ ctxDone' \in BOOLEAN
    BY <1>11 DEF TypeOK, ConfigTypeOK, LoopSignal, WatchConfig
  <2>c. webErrors' \in 0..MaxWebErrors /\ unmarshals' \in 0..MaxUnmarshalErrors
    BY <1>11, BoundsAssumption DEF LoopSignal, WatchConfig
  <2>1. TypeOK'
    BY <1>11, <2>b, <2>c DEF TypeOK, ConfigTypeOK, Alive, CallerInv, LoopSignal, WatchConfig
  <2>2. CallerInv' /\ FirstInv' /\ ClientInv'
    BY <1>11 DEF TypeOK, CallerInv, FirstInv, ClientInv, NoClientWhileDisabled, Alive, configVars, LoopSignal, WatchConfig
  <2>3. EtagInv' /\ PanicsOnlyForPollInterval'
    BY <1>11 DEF EtagInv, ConfigMatchesEtag, PanicsOnlyForPollInterval, Alive, configVars, LoopSignal, WatchConfig
  <2> QED BY <2>1, <2>2, <2>3
<1>12. CASE LoopWatched
  <2>1. TypeOK'
    BY <1>12, BoundsAssumption DEF TypeOK, ConfigTypeOK, Alive, CallerInv, configVars, LoopWatched, LeaveWatch
  <2>2. CallerInv' /\ FirstInv' /\ ClientInv'
    BY <1>12 DEF TypeOK, CallerInv, FirstInv, ClientInv, NoClientWhileDisabled, Alive, configVars, LoopWatched, LeaveWatch
  <2>3. EtagInv' /\ PanicsOnlyForPollInterval'
    BY <1>12 DEF EtagInv, ConfigMatchesEtag, PanicsOnlyForPollInterval, Alive, configVars, LoopWatched, LeaveWatch
  <2> QED BY <2>1, <2>2, <2>3
<1>13. CASE ServiceEnqueue
  <2>1. TypeOK'
    BY <1>13, BoundsAssumption DEF TypeOK, ConfigTypeOK, Alive, CallerInv, configVars, ServiceEnqueue
  <2>2. CallerInv' /\ FirstInv' /\ ClientInv'
    BY <1>13 DEF TypeOK, CallerInv, FirstInv, ClientInv, NoClientWhileDisabled, Alive, configVars, ServiceEnqueue
  <2>3. EtagInv' /\ PanicsOnlyForPollInterval'
    BY <1>13 DEF EtagInv, ConfigMatchesEtag, PanicsOnlyForPollInterval, Alive, configVars, ServiceEnqueue
  <2> QED BY <2>1, <2>2, <2>3
<1>14. CASE ServiceEnqueued
  <2>1. TypeOK'
    BY <1>14, BoundsAssumption DEF TypeOK, ConfigTypeOK, Alive, CallerInv, configVars, ServiceEnqueued
  <2>2. CallerInv' /\ FirstInv' /\ ClientInv'
    BY <1>14 DEF TypeOK, CallerInv, FirstInv, ClientInv, NoClientWhileDisabled, Alive, configVars, ServiceEnqueued
  <2>3. EtagInv' /\ PanicsOnlyForPollInterval'
    BY <1>14 DEF EtagInv, ConfigMatchesEtag, PanicsOnlyForPollInterval, Alive, configVars, ServiceEnqueued
  <2> QED BY <2>1, <2>2, <2>3
<1>15. CASE LoopEnqueued
  <2>1. TypeOK'
    BY <1>15, BoundsAssumption DEF TypeOK, ConfigTypeOK, Alive, CallerInv, configVars, LoopEnqueued
  <2>2. CallerInv' /\ FirstInv' /\ ClientInv'
    BY <1>15 DEF TypeOK, CallerInv, FirstInv, ClientInv, NoClientWhileDisabled, Alive, configVars, LoopEnqueued
  <2>3. EtagInv' /\ PanicsOnlyForPollInterval'
    BY <1>15 DEF EtagInv, ConfigMatchesEtag, PanicsOnlyForPollInterval, Alive, configVars, LoopEnqueued
  <2> QED BY <2>1, <2>2, <2>3
<1>16. CASE LoopCloses
  <2>1. TypeOK'
    BY <1>16, BoundsAssumption DEF TypeOK, ConfigTypeOK, Alive, CallerInv, configVars, LoopCloses
  <2>2. CallerInv' /\ FirstInv' /\ ClientInv'
    BY <1>16 DEF TypeOK, CallerInv, FirstInv, ClientInv, NoClientWhileDisabled, Alive, configVars, LoopCloses
  <2>3. EtagInv' /\ PanicsOnlyForPollInterval'
    BY <1>16 DEF EtagInv, ConfigMatchesEtag, PanicsOnlyForPollInterval, Alive, configVars, LoopCloses
  <2> QED BY <2>1, <2>2, <2>3
<1> QED BY <1>1, <1>2, <1>3, <1>4, <1>5, <1>6, <1>7, <1>8, <1>9, <1>10, <1>11, <1>12,
           <1>13, <1>14, <1>15, <1>16

(***************************************************************************)
(* Every step keeps the invariant.                                         *)
(***************************************************************************)
LEMMA NextIInv == IInv /\ [Next]_vars => IInv'
<1> SUFFICES ASSUME IInv, [Next]_vars PROVE IInv'
  OBVIOUS
<1>1. CASE Next
  <2>1. CASE FirstWatch \/ Watching \/ Environment
    <3>1. Alive /\ UNCHANGED startVars
      BY <1>1, <2>1 DEF Next, FirstWatch, Watching, Environment
    <3>2. CASE GetChanged
      BY <3>1, <3>2, ChangedIInv
    <3>3. CASE ~GetChanged
      BY <2>1, <3>1, <3>3, QuietIInv DEF FirstWatch, Watching, WatchStep, Environment
    <3> QED BY <3>2, <3>3
  <2>2. CASE ~(FirstWatch \/ Watching \/ Environment)
    BY <1>1, <2>2, LoopsIInv DEF Next
  <2> QED BY <2>1, <2>2
<1>2. CASE UNCHANGED vars
  BY <1>2 DEF vars, configVars, startVars, IInv, TypeOK, ConfigTypeOK, Alive, CallerInv, EtagInv, FirstInv,
     ClientInv, ConfigMatchesEtag, NoClientWhileDisabled, PanicsOnlyForPollInterval
<1> QED BY <1>1, <1>2

(***************************************************************************)
(* The invariant holds throughout.                                         *)
(***************************************************************************)
LEMMA Invariance == Spec => []IInv
BY InitIInv, NextIInv, PTL DEF Spec

(***************************************************************************)
(* Types are kept, and at most one of run and runTaskLoop is inside        *)
(* WatchConfig.                                                            *)
(***************************************************************************)
THEOREM TypeCorrect == Spec => []TypeOK
<1>1. IInv => TypeOK
  BY DEF IInv
<1> QED BY <1>1, Invariance, PTL

(***************************************************************************)
(* The features in force are those of the version of the metadata that the *)
(* agent has acknowledged, for any metadata and any number of edits.       *)
(***************************************************************************)
THEOREM ConfigMatches == Spec => []ConfigMatchesEtag
<1>1. IInv => ConfigMatchesEtag
  BY DEF IInv, EtagInv
<1> QED BY <1>1, Invariance, PTL

(***************************************************************************)
(* The task loop never waits for a change of the configuration with an     *)
(* open Client while tasks are disabled.                                   *)
(***************************************************************************)
THEOREM ClientFollowsConfig == Spec => []NoClientWhileDisabled
<1>1. IInv => NoClientWhileDisabled
  BY DEF IInv, ClientInv
<1> QED BY <1>1, Invariance, PTL

(***************************************************************************)
(* The process panics only over the poll interval, and only for the        *)
(* metadata that PanicsOnlyForPollInterval names.                          *)
(***************************************************************************)
THEOREM PanicCauses == Spec => []PanicsOnlyForPollInterval
<1>1. IInv => PanicsOnlyForPollInterval
  BY DEF IInv
<1> QED BY <1>1, Invariance, PTL

(***************************************************************************)
(* No answer of the metadata server takes the identity of the instance     *)
(* from the agent once it has it.                                          *)
(***************************************************************************)
THEOREM IdentityStays == Spec => IdentityKept
<1> DEFINE Kept == agentConfig.zone # "" =>
              /\ agentConfig'.zone # ""
              /\ agentConfig'.endpoint.base = prodEndpoint => agentConfig'.endpoint.zone # ""
<1>1. ASSUME NEW md, NEW old, old.zone # ""
      PROVE  LET new == createConfigFromMetadata(md, old)
             IN new.zone # "" /\ (new.endpoint.base = prodEndpoint => new.endpoint.zone # "")
  <2> DEFINE new == createConfigFromMetadata(md, old)
             end == setSVCEndpoint(md.project, md.instance, InstanceZone(md, old))
  <2>1. new.zone = InstanceZone(md, old) /\ new.endpoint = end
    BY DEF createConfigFromMetadata
  <2>2. InstanceZone(md, old) # ""
    BY <1>1 DEF InstanceZone
  <2>3. end.base = prodEndpoint => end.zone = InstanceZone(md, old)
    BY DEF setSVCEndpoint
  <2> HIDE DEF new, end
  <2>4. new.zone # "" /\ (new.endpoint.base = prodEndpoint => new.endpoint.zone # "")
    BY <2>1, <2>2, <2>3
  <2> QED BY <2>4 DEF new
<1>2. [Next]_vars => [Kept]_agentConfig
  <2> SUFFICES ASSUME [Next]_vars, agentConfig' # agentConfig PROVE Kept
    BY DEF Kept
  <2>1. GetChanged
    BY DEF Next, vars, configVars, FirstWatch, Watching, WatchStep, Environment, WatchConfig,
       GetError, GetUnreadable, GetUnchanged, Timeout, Cancelled, Tick, MetadataChange, Sigterm, Fire,
       Panic, FirstConfig, StartTaskLoop, AwaitSignal, MakeTicker, ServiceEnqueue,
       ServiceEnqueued, ServiceReturns, LeaveWatch, LoopTop, Registered, LoopClient,
       LoopEnqueued, LoopCloses, ClientCloses, LoopSignal, LoopWatched
  <2>2. agentConfig' = createConfigFromMetadata(log[Len(log)], agentConfig)
    BY <2>1 DEF GetChanged
  <2> QED BY <1>1, <2>2
<1> QED BY <1>2, PTL DEF Spec, IdentityKept

====
