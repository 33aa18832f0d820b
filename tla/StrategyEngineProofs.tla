------------------------ MODULE StrategyEngineProofs ------------------------
(***************************************************************************)
(* Proofs about StrategyRunner, SignalPersister, ConfigLoader,             *)
(* AlgorithmManager and BacktestRuns, for any number of strategies, zones, *)
(* signals, pool threads, files, requests and any size of the two bounded  *)
(* memories of the signal path.                                            *)
(***************************************************************************)
EXTENDS StrategyRunner, SignalPersister, ConfigLoader, AlgorithmManager, BacktestRuns,
        SequenceTheorems, FiniteSetTheorems, TLAPS

Distinct(seq) == \A i, j \in DOMAIN seq : seq[i] = seq[j] => i = j

LEMMA EntriesOfSeq ==
    ASSUME NEW S, NEW seq \in Seq(S)
    PROVE  Entries(seq) \subseteq S
  BY DEF Entries

LEMMA EntriesOfAppend ==
    ASSUME NEW S, NEW seq \in Seq(S), NEW e \in S
    PROVE  /\ Append(seq, e) \in Seq(S) /\ Len(Append(seq, e)) = Len(seq) + 1
           /\ Entries(Append(seq, e)) = Entries(seq) \cup {e}
           /\ (Distinct(seq) /\ e \notin Entries(seq)) => Distinct(Append(seq, e))
  <1> DEFINE long == Append(seq, e)
  <1>1. /\ long \in Seq(S) /\ Len(long) = Len(seq) + 1 /\ long[Len(seq) + 1] = e
        /\ \A i \in 1 .. Len(seq) : long[i] = seq[i]
        /\ Len(seq) \in Nat /\ DOMAIN seq = 1 .. Len(seq) /\ DOMAIN long = 1 .. Len(seq) + 1
    BY AppendProperties, LenProperties
  <1> HIDE DEF long
  <1>2. Entries(long) = Entries(seq) \cup {e}
    BY <1>1 DEF Entries
  <1>3. ASSUME Distinct(seq), e \notin Entries(seq) PROVE Distinct(long)
    BY <1>1, <1>3 DEF Distinct, Entries
  <1> QED
    BY <1>1, <1>2, <1>3 DEF long

(* What leaves a sequence with its head is the head alone, once if its entries are distinct. *)
LEMMA EntriesOfTail ==
    ASSUME NEW S, NEW seq \in Seq(S), seq # <<>>
    PROVE  /\ Head(seq) \in S /\ Tail(seq) \in Seq(S) /\ Len(Tail(seq)) = Len(seq) - 1
           /\ Entries(seq) = Entries(Tail(seq)) \cup {Head(seq)}
           /\ Distinct(seq) => Distinct(Tail(seq)) /\ Head(seq) \notin Entries(Tail(seq))
  <1> DEFINE rest == Tail(seq)
  <1>1. /\ Head(seq) \in S /\ rest \in Seq(S) /\ Len(rest) = Len(seq) - 1 /\ Len(seq) \in Nat
        /\ \A i \in 1 .. Len(rest) : rest[i] = seq[i + 1]
        /\ DOMAIN seq = 1 .. Len(seq) /\ DOMAIN rest = 1 .. Len(seq) - 1 /\ Len(seq) > 0
    BY HeadTailProperties, LenProperties, EmptySeq
  <1>2. Head(seq) = seq[1]
    OBVIOUS
  <1> HIDE DEF rest
  <1>3. Entries(seq) = Entries(rest) \cup {seq[1]}
    <2>1. ASSUME NEW i \in DOMAIN seq, i # 1 PROVE i - 1 \in DOMAIN rest /\ rest[i - 1] = seq[i]
      BY <1>1, <2>1
    <2>2. ASSUME NEW i \in DOMAIN rest PROVE i + 1 \in DOMAIN seq /\ rest[i] = seq[i + 1]
      BY <1>1, <2>2
    <2>3. 1 \in DOMAIN seq
      BY <1>1
    <2> QED
      BY <2>1, <2>2, <2>3 DEF Entries
  <1>4. ASSUME Distinct(seq) PROVE Distinct(rest) /\ seq[1] \notin Entries(rest)
    <2>1. ASSUME NEW i \in DOMAIN rest, NEW j \in DOMAIN rest, rest[i] = rest[j] PROVE i = j
      <3>1. i + 1 \in DOMAIN seq /\ j + 1 \in DOMAIN seq /\ seq[i + 1] = seq[j + 1]
        BY <1>1, <2>1
      <3> QED
        BY <1>1, <1>4, <3>1 DEF Distinct
    <2>2. ASSUME NEW i \in DOMAIN rest, rest[i] = seq[1] PROVE FALSE
      <3>1. i + 1 \in DOMAIN seq /\ 1 \in DOMAIN seq /\ seq[i + 1] = seq[1]
        BY <1>1, <2>2
      <3> QED
        BY <1>1, <1>4, <3>1 DEF Distinct
    <2> QED
      BY <2>1, <2>2 DEF Distinct, Entries
  <1> QED
    BY <1>1, <1>2, <1>3, <1>4 DEF rest

-----------------------------------------------------------------------------
(* The invariant of the runner.  A signal in the stream that nobody has taken note of yet *)
(* is the one whose overlay is about to be published.                                     *)

RunTypes == [pc : {"idle", "config", "next", "analyze", "signal", "overlay"},
             todo : SUBSET (Strategies \X RunModes), at : Strategies \cup {"none"},
             mode : RunModes, found : SUBSET Zones, zone : Zones \cup {"none"}]

Types == /\ RunnerTypeOK /\ inbox <= candles
         /\ run \in RunTypes
         /\ processed \in [Strategies -> Seq(Zones)]
         /\ sent \in [Pairs -> Nat]

InCycle == run.pc \in {"analyze", "signal", "overlay"} => run.at \in Strategies

AtOverlay == run.pc = "overlay" => /\ run.zone \in Zones
                                   /\ run.zone \notin Entries(processed[run.at])

InFlight(s, z) == run.pc = "overlay" /\ run.at = s /\ run.zone = z

SentOnce == \A s \in Strategies, z \in Zones :
                \/ <<s, z>> \in excused
                \/ sent[<<s, z>>] = 0
                \/ sent[<<s, z>>] = 1 /\ (z \in Entries(processed[s]) \/ InFlight(s, z))

HandedOver == \A s \in Strategies, z \in Zones :
                  <<s, z>> \in stream => <<s, z>> \in persisted \cup excused \/ InFlight(s, z)

RunnerInv == Types /\ InCycle /\ AtOverlay /\ SentOnce /\ HandedOver

LEMMA InitRunner == RunnerInit => RunnerInv
  <1> SUFFICES ASSUME RunnerInit PROVE RunnerInv
    OBVIOUS
  <1>1. run \in RunTypes /\ run.pc = "idle"
    BY DEF RunnerInit, Resting, RunTypes, RunModes
  <1>2. Entries(<<>>) = {} /\ Distinct(<<>>) /\ <<>> \in Seq(Zones) /\ Len(<<>>) = 0
    BY DEF Entries, Distinct
  <1>3. processed = [s \in Strategies |-> <<>>] /\ sent \in [Pairs -> Nat]
    BY DEF RunnerInit
  <1>4. active \in [Strategies -> RunModes]
    BY DEF RunnerInit, RunModes
  <1>5. Types
    BY <1>1, <1>2, <1>3, <1>4, RunnerAssumption DEF Types, RunnerTypeOK, RunnerInit, Distinct
  <1>6. SentOnce /\ HandedOver
    BY DEF SentOnce, HandedOver, RunnerInit, Pairs
  <1> QED
    BY <1>1, <1>5, <1>6 DEF RunnerInv, InCycle, AtOverlay

(* A step that leaves the memory and the outputs alone and starts or ends no overlay. *)
LEMMA QuietSteps ==
    ASSUME RunnerInv, UNCHANGED <<processed, outVars>>,
           \/ run' = run
           \/ run.pc # "overlay" /\ run'.pc # "overlay"
    PROVE  AtOverlay' /\ SentOnce' /\ HandedOver'
  <1>1. \A s, z : InFlight(s, z)' <=> InFlight(s, z)
    BY DEF InFlight
  <1> QED
    BY <1>1 DEF RunnerInv, AtOverlay, SentOnce, HandedOver, outVars

(* The memory makes room before it grows, so that it stays within its size. *)
LEMMA Remembering ==
    ASSUME Types, NEW s \in Strategies, NEW z \in Zones, z \notin Entries(processed[s])
    PROVE  LET new == Remember(processed[s], z)
           IN  /\ new \in Seq(Zones) /\ Len(new) <= MaxProcessed /\ Distinct(new)
               /\ z \in Entries(new)
               /\ Entries(processed[s]) \ Evicted(processed[s]) \subseteq Entries(new)
  <1> DEFINE old == processed[s]
             room == Room(old)
  <1>1. /\ old \in Seq(Zones) /\ Len(old) <= MaxProcessed /\ Distinct(old)
        /\ Len(old) \in Nat
    BY LenProperties DEF Types, RunnerTypeOK, Distinct
  <1>2. /\ room \in Seq(Zones) /\ Len(room) < MaxProcessed /\ Distinct(room)
        /\ z \notin Entries(room)
    <2>1. CASE Len(old) >= MaxProcessed
      <3>1. old # <<>> /\ room = Tail(old)
        BY <1>1, <2>1, RunnerAssumption DEF Room
      <3> QED
        BY <1>1, <2>1, <3>1, EntriesOfTail, RunnerAssumption
    <2>2. CASE ~(Len(old) >= MaxProcessed)
      BY <1>1, <2>2, RunnerAssumption DEF Room
    <2> QED
      BY <2>1, <2>2
  <1>3. Entries(old) \ Evicted(old) \subseteq Entries(room)
    BY DEF Evicted
  <1> HIDE DEF room, old
  <1>4. /\ Append(room, z) \in Seq(Zones) /\ Len(Append(room, z)) = Len(room) + 1
        /\ Entries(Append(room, z)) = Entries(room) \cup {z} /\ Distinct(Append(room, z))
    BY <1>2, EntriesOfAppend
  <1>5. Len(room) \in Nat
    BY <1>2, LenProperties
  <1>6. Remember(old, z) = Append(room, z)
    BY DEF Remember, room
  <1>7. /\ Append(room, z) \in Seq(Zones) /\ Len(Append(room, z)) <= MaxProcessed
        /\ Distinct(Append(room, z)) /\ z \in Entries(Append(room, z))
        /\ Entries(old) \ Evicted(old) \subseteq Entries(Append(room, z))
    BY <1>2, <1>3, <1>4, <1>5, RunnerAssumption
  <1> QED
    BY <1>6, <1>7, Zenon DEF old

(* Marking a signal keeps the types, and afterwards the zone counts as remembered. *)
LEMMA MarkSteps ==
    ASSUME RunnerInv, NEW z \in Zones, run.at \in Strategies, z \notin Entries(processed[run.at]),
           Mark(z), UNCHANGED <<stream, sent>>, \A s, y : ~InFlight(s, y)',
           \A s, y : InFlight(s, y) => s = run.at /\ y = z
    PROVE  /\ processed' \in [Strategies -> Seq(Zones)]
           /\ \A s \in Strategies : Len(processed'[s]) <= MaxProcessed /\ Distinct(processed'[s])
           /\ mapped' \subseteq Pairs /\ persisted' \subseteq Pairs /\ excused' \subseteq Pairs
           /\ SentOnce' /\ HandedOver'
  <1> DEFINE a == run.at
             new == Remember(processed[a], z)
             pushed == {<<a, old>> : old \in Evicted(processed[a])}
  <1>1. /\ new \in Seq(Zones) /\ Len(new) <= MaxProcessed /\ Distinct(new) /\ z \in Entries(new)
        /\ Entries(processed[a]) \ Evicted(processed[a]) \subseteq Entries(new)
    BY Remembering DEF RunnerInv
  <1>2. /\ processed' = [processed EXCEPT ![a] = new] /\ excused' = excused \cup pushed
        /\ persisted' = persisted \cup {<<a, z>>} /\ mapped' = mapped \cup {<<a, z>>}
    BY DEF Mark, HandOver, Pair
  <1>3. /\ processed \in [Strategies -> Seq(Zones)] /\ a \in Strategies
        /\ \A s \in Strategies : Len(processed[s]) <= MaxProcessed /\ Distinct(processed[s])
    BY DEF RunnerInv, Types, RunnerTypeOK, Distinct
  <1>4. Evicted(processed[a]) \subseteq Zones
    BY <1>3, EntriesOfSeq DEF Evicted
  <1>5. \A y \in Evicted(processed[a]) : <<a, y>> \in pushed
    OBVIOUS
  <1>6. pushed \subseteq Pairs
    BY <1>3, <1>4 DEF Pairs
  <1> HIDE DEF a, new, pushed
  <1>7. /\ \A s \in Strategies \ {a} : processed'[s] = processed[s]
        /\ processed'[a] = new
    BY <1>2, <1>3
  <1>8. mapped' \subseteq Pairs /\ persisted' \subseteq Pairs /\ excused' \subseteq Pairs
    BY <1>2, <1>3, <1>6 DEF RunnerInv, Types, RunnerTypeOK, Pairs
  <1>9. SentOnce'
    <2> SUFFICES ASSUME NEW s \in Strategies, NEW y \in Zones, <<s, y>> \notin excused',
                        sent'[<<s, y>>] # 0
                 PROVE  sent'[<<s, y>>] = 1 /\ y \in Entries(processed'[s])
      BY DEF SentOnce
    <2>1. <<s, y>> \notin excused
      BY <1>2
    <2>2. sent'[<<s, y>>] = 1 /\ (y \in Entries(processed[s]) \/ (s = a /\ y = z))
      BY <2>1 DEF RunnerInv, SentOnce, a
    <2>3. CASE s = a
      <3>1. y \notin Evicted(processed[a])
        BY <1>2, <1>5, <2>3
      <3> QED
        BY <1>1, <1>7, <2>2, <2>3, <3>1
    <2> QED
      BY <1>7, <2>2, <2>3
  <1>10. HandedOver'
    BY <1>2 DEF RunnerInv, HandedOver, a
  <1> QED
    BY <1>1, <1>2, <1>3, <1>7, <1>8, <1>9, <1>10

(* The steps of the candle thread that only move it on. *)
LEMMA MovingSteps ==
    ASSUME RunnerInv, inbox' \in Nat, inbox' <= inbox, throttled' \subseteq Strategies,
           breaks' \in 0 .. MaxBreaks,
           UNCHANGED <<configVars, subscribed, results, candles, losses, zoneVars, outVars>>,
           run' \in RunTypes, InCycle', run.pc # "overlay", run'.pc # "overlay"
    PROVE  RunnerInv'
  <1>1. inbox' \in 0 .. MaxCandles /\ inbox' <= candles' /\ candles' \in 0 .. MaxCandles
    BY RunnerAssumption DEF RunnerInv, Types, RunnerTypeOK
  <1>2. Types'
    BY <1>1, Zenon DEF RunnerInv, Types, RunnerTypeOK, configVars, zoneVars, outVars, RunTypes
  <1>3. UNCHANGED <<processed, outVars>>
    BY DEF zoneVars
  <1>4. AtOverlay' /\ SentOnce' /\ HandedOver'
    BY <1>3, QuietSteps
  <1> QED
    BY <1>2, <1>4 DEF RunnerInv

LEMMA ThreadMoves ==
    ASSUME RunnerInv,
           \/ TakeUpdate \/ StartStrategies \/ UpdateServed \/ Analyze \/ AnalysisFails \/ CycleDone
           \/ \E c \in run.todo : NextStrategy(c)
           \/ \E z \in run.found : SkipDuplicate(z)
    PROVE  RunnerInv'
  <1> DEFINE Moved == /\ inbox' \in Nat /\ inbox' <= inbox /\ throttled' \subseteq Strategies
                      /\ breaks' \in 0 .. MaxBreaks
                      /\ UNCHANGED <<configVars, subscribed, results, candles, losses, zoneVars, outVars>>
                      /\ run' \in RunTypes /\ InCycle' /\ run.pc # "overlay" /\ run'.pc # "overlay"
  <1>1. /\ run \in RunTypes /\ inbox \in Nat /\ throttled \subseteq Strategies
        /\ breaks \in 0 .. MaxBreaks /\ active \in [Strategies -> RunModes]
        /\ Resting \in RunTypes
    BY DEF RunnerInv, Types, RunnerTypeOK, Resting, RunTypes, RunModes
  <1>2. CASE TakeUpdate
    <2>1. inbox > 0 /\ inbox' = inbox - 1 /\ inbox' \in Nat
      BY <1>1, <1>2 DEF TakeUpdate
    <2>2. run' \in RunTypes /\ run'.pc = "config" /\ run.pc = "idle"
      BY <1>1, <1>2 DEF TakeUpdate, Continue, RunTypes
    <2> QED
      BY <1>1, <1>2, <2>1, <2>2, MovingSteps DEF TakeUpdate, Continue, InCycle
  <1>3. CASE StartStrategies
    <2> DEFINE todo == {<<s, active[s]>> : s \in {t \in Strategies : active[t] # "off"}}
    <2>1. todo \subseteq Strategies \X RunModes
      BY <1>1
    <2> HIDE DEF todo
    <2>2. run.pc = "config" /\ run' = [run EXCEPT !.pc = "next", !.todo = todo]
      BY <1>3 DEF StartStrategies, Continue, todo
    <2>3. run' \in RunTypes /\ run'.pc = "next"
      BY <1>1, <2>1, <2>2 DEF RunTypes
    <2> QED
      BY <1>1, <1>3, <2>2, <2>3, MovingSteps DEF StartStrategies, Continue, InCycle
  <1>4. CASE UpdateServed
    <2>1. run.pc = "next" /\ run' \in RunTypes /\ run'.pc = "idle"
      BY <1>1, <1>4 DEF UpdateServed, Continue, Resting
    <2> QED
      BY <1>1, <1>4, <2>1, MovingSteps DEF UpdateServed, Continue, InCycle
  <1>5. CASE Analyze
    <2>1. PICK found \in SUBSET (Zones \ invalidated[run.at]) :
              run' = [run EXCEPT !.pc = "signal", !.found = found]
      BY <1>5 DEF Analyze, Continue
    <2>2. run.pc = "analyze" /\ run.at \in Strategies
      BY <1>5 DEF Analyze, RunnerInv, InCycle
    <2>3. run' \in RunTypes /\ run'.pc = "signal" /\ run'.at = run.at
      BY <1>1, <2>1 DEF RunTypes
    <2>4. UNCHANGED <<inbox, throttled, breaks, configVars, subscribed, results, candles, losses,
                      zoneVars, outVars>>
      BY <1>5 DEF Analyze, Continue
    <2> QED
      BY <1>1, <2>2, <2>3, <2>4, MovingSteps DEF InCycle
  <1>6. ASSUME AnalysisFails \/ CycleDone PROVE RunnerInv'
    <2>1. /\ run.pc \in {"analyze", "signal"} /\ run.at \in Strategies
          /\ run' = [Resting EXCEPT !.pc = "next", !.todo = run.todo]
      BY <1>6 DEF AnalysisFails, CycleDone, Abandon, Continue, RunnerInv, InCycle
    <2>2. run' \in RunTypes /\ run'.pc = "next"
      BY <1>1, <2>1 DEF RunTypes
    <2>3. throttled' \subseteq Strategies /\ breaks' \in 0 .. MaxBreaks
      BY <1>1, <1>6, <2>1, RunnerAssumption DEF AnalysisFails, CycleDone, Break
    <2>4. UNCHANGED <<inbox, configVars, subscribed, results, candles, losses, zoneVars, outVars>>
      BY <1>6 DEF AnalysisFails, CycleDone, Abandon, Continue
    <2> QED
      BY <1>1, <2>1, <2>2, <2>3, <2>4, MovingSteps DEF InCycle
  <1>7. ASSUME NEW c \in run.todo, NextStrategy(c) PROVE RunnerInv'
    <2>0. UNCHANGED <<inbox, throttled, breaks, configVars, subscribed, results, candles, losses,
                      zoneVars, outVars>>
      BY <1>7 DEF NextStrategy, Continue
    <2>1. c[1] \in Strategies /\ c[2] \in RunModes /\ run.pc = "next"
      BY <1>1, <1>7 DEF RunTypes, NextStrategy
    <2>2. run' = IF c[1] \in throttled THEN [run EXCEPT !.todo = @ \ {c}]
                 ELSE [run EXCEPT !.pc = "analyze", !.todo = @ \ {c}, !.at = c[1], !.mode = c[2]]
      BY <1>7 DEF NextStrategy, Continue
    <2>3. CASE c[1] \in throttled
      <3>1. run' \in RunTypes /\ run'.pc = "next"
        BY <1>1, <2>1, <2>2, <2>3 DEF RunTypes
      <3> QED
        BY <1>1, <2>0, <2>1, <3>1, MovingSteps DEF InCycle
    <2>4. CASE c[1] \notin throttled
      <3>1. run' \in RunTypes /\ run'.pc = "analyze" /\ run'.at = c[1]
        BY <1>1, <2>1, <2>2, <2>4 DEF RunTypes
      <3> QED
        BY <1>1, <2>0, <2>1, <3>1, MovingSteps DEF InCycle
    <2> QED
      BY <2>3, <2>4
  <1>8. ASSUME NEW z \in run.found, SkipDuplicate(z) PROVE RunnerInv'
    <2>1. run.pc = "signal" /\ run.at \in Strategies /\ run' = [run EXCEPT !.found = @ \ {z}]
      BY <1>8 DEF SkipDuplicate, Continue, RunnerInv, InCycle
    <2>2. run' \in RunTypes /\ run'.pc = "signal" /\ run'.at = run.at
      BY <1>1, <2>1 DEF RunTypes
    <2> QED
      BY <1>1, <1>8, <2>1, <2>2, MovingSteps DEF SkipDuplicate, Continue, InCycle
  <1> QED
    BY <1>2, <1>3, <1>4, <1>5, <1>6, <1>7, <1>8

(* What the steps of a signal establish together keeps the invariant. *)
LEMMA SignalSteps ==
    ASSUME RunnerInv, UNCHANGED <<configVars, linkVars, candles, throttled, invalidated>>,
           breaks' \in 0 .. MaxBreaks, run' \in RunTypes,
           processed' \in [Strategies -> Seq(Zones)], sent' \in [Pairs -> Nat],
           \A s \in Strategies : Len(processed'[s]) <= MaxProcessed /\ Distinct(processed'[s]),
           mapped' \subseteq Pairs, stream' \subseteq Pairs, persisted' \subseteq Pairs,
           excused' \subseteq Pairs
    PROVE  Types'
  <1>1. \A s \in Strategies : /\ Entries(processed'[s]) \subseteq Zones
                              /\ Len(processed'[s]) <= MaxProcessed
                              /\ \A i, j \in DOMAIN processed'[s] :
                                     processed'[s][i] = processed'[s][j] => i = j
    BY EntriesOfSeq DEF Distinct
  <1>2. run'.pc \in {"idle", "config", "next", "analyze", "signal", "overlay"}
    BY DEF RunTypes
  <1> QED
    BY <1>1, <1>2, Zenon DEF RunnerInv, Types, RunnerTypeOK, configVars, linkVars, RunTypes

LEMMA RecordOnlySteps ==
    ASSUME RunnerInv, NEW z \in run.found, RecordOnly(z)
    PROVE  RunnerInv'
  <1>1. /\ run \in RunTypes /\ run.pc = "signal" /\ run.at \in Strategies /\ z \in Zones
        /\ z \notin Entries(processed[run.at])
    BY DEF RunnerInv, Types, RunTypes, InCycle, RecordOnly, IsDuplicate
  <1>2. run' = [run EXCEPT !.found = @ \ {z}]
    BY DEF RecordOnly, Continue
  <1>3. run' \in RunTypes /\ run'.pc = "signal" /\ run'.at = run.at
    BY <1>1, <1>2 DEF RunTypes
  <1>4. (\A s, y : ~InFlight(s, y)) /\ (\A s, y : ~InFlight(s, y)')
    BY <1>1, <1>3 DEF InFlight
  <1>5. Mark(z) /\ UNCHANGED <<stream, sent>>
    BY DEF RecordOnly
  <1>6. /\ processed' \in [Strategies -> Seq(Zones)]
        /\ \A s \in Strategies : Len(processed'[s]) <= MaxProcessed /\ Distinct(processed'[s])
        /\ mapped' \subseteq Pairs /\ persisted' \subseteq Pairs /\ excused' \subseteq Pairs
        /\ SentOnce' /\ HandedOver'
    BY <1>1, <1>4, <1>5, MarkSteps
  <1>7. UNCHANGED <<configVars, linkVars, candles, throttled, invalidated, breaks>>
    BY DEF RecordOnly, Continue, Mark, linkVars
  <1>8. Types'
    BY <1>3, <1>5, <1>6, <1>7, SignalSteps DEF RunnerInv, Types, RunnerTypeOK
  <1> QED
    BY <1>1, <1>3, <1>6, <1>8 DEF RunnerInv, InCycle, AtOverlay

LEMMA OverlayPublishedSteps ==
    ASSUME RunnerInv, OverlayPublished
    PROVE  RunnerInv'
  <1>1. /\ run \in RunTypes /\ run.pc = "overlay" /\ run.at \in Strategies /\ run.zone \in Zones
        /\ run.zone \notin Entries(processed[run.at])
    BY DEF RunnerInv, Types, InCycle, AtOverlay, OverlayPublished
  <1>2. run' = [run EXCEPT !.pc = "signal", !.found = @ \ {run.zone}, !.zone = "none"]
    BY DEF OverlayPublished, Continue
  <1>3. run' \in RunTypes /\ run'.pc = "signal" /\ run'.at = run.at
    BY <1>1, <1>2 DEF RunTypes
  <1>4. /\ \A s, y : InFlight(s, y) => s = run.at /\ y = run.zone
        /\ \A s, y : ~InFlight(s, y)'
    BY <1>1, <1>3 DEF InFlight
  <1>5. Mark(run.zone) /\ UNCHANGED <<stream, sent>>
    BY DEF OverlayPublished
  <1>6. /\ processed' \in [Strategies -> Seq(Zones)]
        /\ \A s \in Strategies : Len(processed'[s]) <= MaxProcessed /\ Distinct(processed'[s])
        /\ mapped' \subseteq Pairs /\ persisted' \subseteq Pairs /\ excused' \subseteq Pairs
        /\ SentOnce' /\ HandedOver'
    BY <1>1, <1>4, <1>5, MarkSteps
  <1>7. UNCHANGED <<configVars, linkVars, candles, throttled, invalidated, breaks>>
    BY DEF OverlayPublished, Continue, Mark, linkVars
  <1>8. Types'
    BY <1>3, <1>5, <1>6, <1>7, SignalSteps DEF RunnerInv, Types, RunnerTypeOK
  <1> QED
    BY <1>1, <1>3, <1>6, <1>8 DEF RunnerInv, InCycle, AtOverlay

(* An entry in the stream is the first of its pair, or one the cycle is about to lose. *)
LEMMA PublishSteps ==
    ASSUME RunnerInv, NEW z \in run.found, Publish(z) \/ PublishFails(z)
    PROVE  RunnerInv'
  <1> DEFINE a == run.at
  <1>1. /\ run \in RunTypes /\ Resting \in RunTypes /\ run.pc = "signal" /\ a \in Strategies
        /\ z \in Zones /\ z \notin Entries(processed[a]) /\ <<a, z>> \in Pairs
    <2>1. Resting \in RunTypes
      BY DEF Resting, RunTypes, RunModes
    <2>2. /\ run \in RunTypes /\ run.pc = "signal" /\ a \in Strategies /\ z \in Zones
          /\ z \notin Entries(processed[a])
      BY DEF RunnerInv, Types, RunTypes, InCycle, Publish, PublishFails, IsDuplicate
    <2> QED
      BY <2>1, <2>2 DEF Pairs
  <1>2. /\ sent \in [Pairs -> Nat] /\ stream \subseteq Pairs /\ excused \subseteq Pairs
        /\ persisted \subseteq Pairs /\ mapped \subseteq Pairs
        /\ processed \in [Strategies -> Seq(Zones)] /\ breaks \in 0 .. MaxBreaks
        /\ \A s \in Strategies : Len(processed[s]) <= MaxProcessed /\ Distinct(processed[s])
    BY DEF RunnerInv, Types, RunnerTypeOK, Distinct
  <1>3. UNCHANGED <<configVars, linkVars, candles, throttled, zoneVars, persisted>>
    <2>1. CASE Publish(z)
      BY <2>1 DEF Publish, Continue, linkVars
    <2>2. CASE PublishFails(z)
      BY <2>2 DEF PublishFails, Abandon, Continue, linkVars
    <2> QED
      BY <2>1, <2>2
  <1>4. breaks' \in 0 .. MaxBreaks
    <2>1. CASE Publish(z)
      BY <1>2, <2>1 DEF Publish
    <2>2. CASE PublishFails(z)
      BY <1>2, <2>2, RunnerAssumption DEF PublishFails, Break
    <2> QED
      BY <2>1, <2>2
  <1>5. ASSUME sent' \in [Pairs -> Nat], stream' \subseteq Pairs, excused' \subseteq Pairs,
               run' \in RunTypes
        PROVE  Types'
    BY <1>2, <1>3, <1>4, <1>5, SignalSteps DEF zoneVars
  <1>6. \A s, y : ~InFlight(s, y)
    BY <1>1 DEF InFlight
  <1>7. <<a, z>> \in excused \/ sent[<<a, z>>] = 0
    BY <1>1, <1>6 DEF RunnerInv, SentOnce
  <1>8. ASSUME Enters(<<a, z>>)
        PROVE  /\ sent' \in [Pairs -> Nat] /\ stream' = stream \cup {<<a, z>>} /\ stream' \subseteq Pairs
               /\ sent'[<<a, z>>] = sent[<<a, z>>] + 1
               /\ \A p \in Pairs \ {<<a, z>>} : sent'[p] = sent[p]
    <2> DEFINE p == <<a, z>>
    <2>1. p \in Pairs /\ stream' = stream \cup {p} /\ sent' = [sent EXCEPT ![p] = @ + 1]
      BY <1>1, <1>8 DEF Enters
    <2> HIDE DEF p
    <2>2. /\ sent' \in [Pairs -> Nat] /\ stream' = stream \cup {p} /\ stream' \subseteq Pairs
          /\ sent'[p] = sent[p] + 1
          /\ \A q \in Pairs \ {p} : sent'[q] = sent[q]
      BY <1>2, <2>1
    <2> QED
      BY <2>2 DEF p
  <1>9. CASE Publish(z)
    <2>1. Enters(<<a, z>>) /\ run' = [run EXCEPT !.pc = "overlay", !.zone = z] /\ excused' = excused
      BY <1>9 DEF Publish, Pair, Continue
    <2>2. run' \in RunTypes /\ run'.pc = "overlay" /\ run'.zone = z /\ run'.at = a
      BY <1>1, <2>1 DEF RunTypes
    <2>3. \A s, y : (s = a /\ y = z) => InFlight(s, y)'
      BY <2>2 DEF InFlight
    <2>4. SentOnce'
      <3> SUFFICES ASSUME NEW s \in Strategies, NEW y \in Zones, <<s, y>> \notin excused
                   PROVE  \/ sent'[<<s, y>>] = 0
                          \/ sent'[<<s, y>>] = 1 /\ (y \in Entries(processed[s]) \/ (s = a /\ y = z))
        BY <1>3, <2>1, <2>3 DEF SentOnce, zoneVars
      <3>1. CASE s = a /\ y = z
        BY <1>7, <1>8, <2>1, <3>1
      <3>2. CASE ~(s = a /\ y = z)
        <4>1. <<s, y>> \in Pairs \ {<<a, z>>}
          BY <3>2 DEF Pairs
        <4> QED
          BY <1>6, <1>8, <2>1, <4>1 DEF RunnerInv, SentOnce
      <3> QED
        BY <3>1, <3>2
    <2>5. HandedOver'
      <3> SUFFICES ASSUME NEW s \in Strategies, NEW y \in Zones, <<s, y>> \in stream', ~(s = a /\ y = z)
                   PROVE  <<s, y>> \in persisted \cup excused
        BY <1>3, <2>1, <2>3 DEF HandedOver
      <3>1. <<s, y>> \in stream
        BY <1>8, <2>1
      <3> QED
        BY <1>6, <3>1 DEF RunnerInv, HandedOver
    <2>6. AtOverlay' /\ InCycle'
      BY <1>1, <1>3, <2>2 DEF AtOverlay, InCycle, zoneVars
    <2> QED
      BY <1>2, <1>5, <1>8, <2>1, <2>2, <2>4, <2>5, <2>6 DEF RunnerInv
  <1>10. CASE PublishFails(z)
    <2>1. run' = [Resting EXCEPT !.pc = "next", !.todo = run.todo]
      BY <1>10 DEF PublishFails, Abandon, Continue
    <2>2. run' \in RunTypes /\ run'.pc = "next"
      BY <1>1, <2>1 DEF RunTypes
    <2>3. AtOverlay' /\ InCycle'
      BY <2>2 DEF AtOverlay, InCycle
    <2>4. CASE UNCHANGED <<stream, sent, excused>>
      <3>1. SentOnce' /\ HandedOver'
        BY <1>3, <1>6, <2>4 DEF RunnerInv, SentOnce, HandedOver, zoneVars
      <3> QED
        BY <1>2, <1>5, <2>2, <2>3, <2>4, <3>1 DEF RunnerInv
    <2>5. CASE Enters(<<a, z>>) /\ excused' = excused \cup {<<a, z>>}
      <3>1. SentOnce'
        <4> SUFFICES ASSUME NEW s \in Strategies, NEW y \in Zones, <<s, y>> \notin excused'
                     PROVE  \/ sent'[<<s, y>>] = 0
                            \/ sent'[<<s, y>>] = 1 /\ y \in Entries(processed[s])
          BY <1>3 DEF SentOnce, zoneVars
        <4>1. <<s, y>> \in Pairs \ {<<a, z>>} /\ <<s, y>> \notin excused
          BY <2>5 DEF Pairs
        <4> QED
          BY <1>6, <1>8, <2>5, <4>1 DEF RunnerInv, SentOnce
      <3>2. HandedOver'
        BY <1>3, <1>6, <1>8, <2>5 DEF RunnerInv, HandedOver
      <3> QED
        BY <1>1, <1>2, <1>5, <1>8, <2>2, <2>3, <2>5, <3>1, <3>2 DEF RunnerInv
    <2> QED
      BY <1>10, <2>4, <2>5 DEF PublishFails, Pair
  <1> QED
    BY <1>9, <1>10

(* The signal whose overlay fails is in the stream and forgotten: its pair is excused. *)
LEMMA OverlayFailsSteps ==
    ASSUME RunnerInv, OverlayFails
    PROVE  RunnerInv'
  <1> DEFINE p == <<run.at, run.zone>>
  <1>1. /\ run \in RunTypes /\ run.pc = "overlay" /\ p \in Pairs /\ Resting \in RunTypes
        /\ \A s, y : InFlight(s, y) => <<s, y>> = p
    <2>1. Resting \in RunTypes
      BY DEF Resting, RunTypes, RunModes
    <2> QED
      BY <2>1 DEF RunnerInv, Types, InCycle, AtOverlay, OverlayFails, Pairs, InFlight
  <1>2. excused' = excused \cup {p} /\ run' = [Resting EXCEPT !.pc = "next", !.todo = run.todo]
    BY DEF OverlayFails, Pair, Abandon, Continue
  <1>3. run' \in RunTypes /\ run'.pc = "next"
    BY <1>1, <1>2 DEF RunTypes
  <1>4. breaks' \in 0 .. MaxBreaks
    BY RunnerAssumption DEF OverlayFails, Break, RunnerInv, Types, RunnerTypeOK
  <1>5. UNCHANGED <<configVars, linkVars, candles, throttled, zoneVars, stream, persisted, sent>>
    BY DEF OverlayFails, Abandon, Continue, linkVars
  <1> HIDE DEF p
  <1>6. Types'
    <2>1. excused' \subseteq Pairs
      BY <1>1, <1>2 DEF RunnerInv, Types, RunnerTypeOK
    <2> QED
      BY <1>3, <1>4, <1>5, <2>1, SignalSteps
         DEF RunnerInv, Types, RunnerTypeOK, Distinct, zoneVars
  <1>7. SentOnce' /\ HandedOver'
    BY <1>1, <1>2, <1>5 DEF RunnerInv, SentOnce, HandedOver, zoneVars
  <1> QED
    BY <1>3, <1>6, <1>7 DEF RunnerInv, InCycle, AtOverlay

(* With its 24 hours the head of a memory is forgotten, and may be sent again. *)
LEMMA ExpireSteps ==
    ASSUME RunnerInv, NEW s \in Strategies, ExpireOldest(s)
    PROVE  RunnerInv'
  <1> DEFINE old == processed[s]
             rest == Tail(old)
             gone == <<s, Head(old)>>
  <1>1. /\ old \in Seq(Zones) /\ old # <<>> /\ Distinct(old) /\ Len(old) <= MaxProcessed
        /\ processed \in [Strategies -> Seq(Zones)] /\ Len(old) \in Nat
        /\ \A t \in Strategies : Len(processed[t]) <= MaxProcessed /\ Distinct(processed[t])
    BY LenProperties DEF RunnerInv, Types, RunnerTypeOK, Distinct, ExpireOldest
  <1>2. /\ Head(old) \in Zones /\ rest \in Seq(Zones) /\ Len(rest) = Len(old) - 1
        /\ Entries(old) = Entries(rest) \cup {Head(old)} /\ Distinct(rest)
    BY <1>1, EntriesOfTail
  <1>3. gone \in Pairs
    BY <1>2 DEF Pairs
  <1>4. /\ processed' = [processed EXCEPT ![s] = rest] /\ sent' = [sent EXCEPT ![gone] = 0]
        /\ UNCHANGED <<configVars, linkVars, candles, run, throttled, invalidated, mapped,
                       stream, persisted, excused, breaks>>
    BY DEF ExpireOldest
  <1>5. \A y : gone = <<s, y>> <=> y = Head(old)
    OBVIOUS
  <1> HIDE DEF old, rest, gone
  <1>6. /\ processed' \in [Strategies -> Seq(Zones)]
        /\ \A t \in Strategies : Len(processed'[t]) <= MaxProcessed /\ Distinct(processed'[t])
        /\ \A t \in Strategies : Entries(processed'[t]) \subseteq Entries(processed[t])
        /\ \A t \in Strategies : \A y \in Entries(processed[t]) :
               <<t, y>> # gone => y \in Entries(processed'[t])
    <2>1. processed'[s] = rest /\ \A t \in Strategies \ {s} : processed'[t] = processed[t]
      BY <1>1, <1>4
    <2>2. Len(rest) <= MaxProcessed /\ old = processed[s]
      BY <1>1, <1>2, RunnerAssumption DEF old
    <2> QED
      BY <1>1, <1>2, <1>4, <1>5, <2>1, <2>2
  <1>7. /\ sent' \in [Pairs -> Nat] /\ sent'[gone] = 0
        /\ \A q \in Pairs \ {gone} : sent'[q] = sent[q]
    BY <1>3, <1>4 DEF RunnerInv, Types
  <1>8. Types'
    BY <1>4, <1>6, <1>7, SignalSteps DEF RunnerInv, Types, RunnerTypeOK
  <1>9. SentOnce'
    <2> SUFFICES ASSUME NEW t \in Strategies, NEW y \in Zones, <<t, y>> \notin excused,
                        sent'[<<t, y>>] # 0
                 PROVE  sent'[<<t, y>>] = 1 /\ (y \in Entries(processed'[t]) \/ InFlight(t, y)')
      BY <1>4 DEF SentOnce
    <2>1. <<t, y>> \in Pairs \ {gone}
      BY <1>7 DEF Pairs
    <2>2. sent[<<t, y>>] = 1 /\ (y \in Entries(processed[t]) \/ InFlight(t, y))
      BY <1>7, <2>1 DEF RunnerInv, SentOnce
    <2>3. InFlight(t, y)' <=> InFlight(t, y)
      BY <1>4 DEF InFlight
    <2> QED
      BY <1>6, <1>7, <2>1, <2>2, <2>3
  <1>10. HandedOver' /\ InCycle' /\ AtOverlay'
    <2>1. \A u, y : InFlight(u, y)' <=> InFlight(u, y)
      BY <1>4 DEF InFlight
    <2> QED
      BY <1>4, <1>6, <2>1 DEF RunnerInv, HandedOver, InCycle, AtOverlay
  <1> QED
    BY <1>8, <1>9, <1>10 DEF RunnerInv

(* The configurations, the candles, the connections and the trades touch neither the    *)
(* thread nor what it remembers.                                                         *)
LEMMA OutsideSteps ==
    ASSUME RunnerInv,
           \/ CandleUpdate
           \/ \E s \in Strategies : IntervalPasses(s)
           \/ \E s \in Strategies, mode \in RunModes : Reconfigured(s, mode)
           \/ \E l \in {"candles", "results"} : Subscribe(l) \/ ConnectionBreaks(l)
           \/ \E p \in Pairs : TradeLoses(p) \/ HandleResult(p)
    PROVE  RunnerInv'
  <1> DEFINE Quiet == UNCHANGED <<run, processed, mapped, outVars>>
  <1>1. Quiet
    <2> USE DEF zoneVars, outVars
    <2>1. CASE CandleUpdate
      BY <2>1 DEF CandleUpdate
    <2>2. ASSUME NEW s \in Strategies, IntervalPasses(s) PROVE Quiet
      BY <2>2 DEF IntervalPasses
    <2>3. ASSUME NEW s \in Strategies, NEW mode \in RunModes, Reconfigured(s, mode) PROVE Quiet
      BY <2>3 DEF Reconfigured
    <2>4. ASSUME NEW l \in {"candles", "results"}, Subscribe(l) PROVE Quiet
      BY <2>4 DEF Subscribe
    <2>5. ASSUME NEW l \in {"candles", "results"}, ConnectionBreaks(l) PROVE Quiet
      BY <2>5 DEF ConnectionBreaks
    <2>6. ASSUME NEW p \in Pairs, TradeLoses(p) PROVE Quiet
      BY <2>6 DEF TradeLoses
    <2>7. ASSUME NEW p \in Pairs, HandleResult(p) PROVE Quiet
      BY <2>7 DEF HandleResult
    <2> QED
      BY <2>1, <2>2, <2>3, <2>4, <2>5, <2>6, <2>7
  <1>2. Types'
    <2> DEFINE Rest == /\ active' \in [Strategies -> RunModes] /\ modes' \in 0 .. MaxModes
                       /\ candles' \in 0 .. MaxCandles /\ losses' \in 0 .. MaxLosses
                       /\ breaks' \in 0 .. MaxBreaks
                       /\ subscribed' \subseteq {"candles", "results"}
                       /\ inbox' \in 0 .. MaxCandles /\ results' \subseteq Pairs
                       /\ throttled' \subseteq Strategies
                       /\ invalidated' \in [Strategies -> SUBSET Zones]
                       /\ inbox' <= candles'
    <2>1. Rest
      <3> USE RunnerAssumption DEF RunnerInv, Types, RunnerTypeOK
      <3>1. CASE CandleUpdate
        BY <3>1 DEF CandleUpdate, configVars, zoneVars
      <3>2. ASSUME NEW s \in Strategies, IntervalPasses(s) PROVE Rest
        BY <3>2 DEF IntervalPasses, configVars, linkVars, zoneVars
      <3>3. ASSUME NEW s \in Strategies, NEW mode \in RunModes, Reconfigured(s, mode) PROVE Rest
        BY <3>3 DEF Reconfigured, linkVars, zoneVars
      <3>4. ASSUME NEW l \in {"candles", "results"}, Subscribe(l) PROVE Rest
        BY <3>4 DEF Subscribe, configVars, zoneVars
      <3>5. ASSUME NEW l \in {"candles", "results"}, ConnectionBreaks(l) PROVE Rest
        <4>1. inbox' \in {0, inbox} /\ results' \in {{}, results} /\ breaks' \in 0 .. MaxBreaks
          BY <3>5 DEF ConnectionBreaks, Break
        <4>2. inbox' \in 0 .. MaxCandles /\ inbox' <= candles /\ results' \subseteq Pairs
          BY <4>1
        <4> QED
          BY <3>5, <4>1, <4>2 DEF ConnectionBreaks, configVars, zoneVars
      <3>6. ASSUME NEW p \in Pairs, TradeLoses(p) PROVE Rest
        BY <3>6 DEF TradeLoses, configVars, zoneVars
      <3>7. ASSUME NEW p \in Pairs, HandleResult(p) PROVE Rest
        <4>1. p[1] \in Strategies /\ p[2] \in Zones
          BY DEF Pairs
        <4>2. invalidated' \in [Strategies -> SUBSET Zones]
          BY <3>7, <4>1 DEF HandleResult
        <4> QED
          BY <3>7, <4>2 DEF HandleResult, configVars
      <3> QED
        BY <3>1, <3>2, <3>3, <3>4, <3>5, <3>6, <3>7
    <2> QED
      BY <1>1, <2>1, Zenon DEF RunnerInv, Types, RunnerTypeOK, outVars
  <1>3. InCycle' /\ AtOverlay' /\ SentOnce' /\ HandedOver'
    BY <1>1, QuietSteps DEF RunnerInv, InCycle
  <1> QED
    BY <1>2, <1>3 DEF RunnerInv

LEMMA NextRunner == RunnerInv /\ [RunnerNext]_runnerVars => RunnerInv'
  <1> SUFFICES ASSUME RunnerInv, [RunnerNext]_runnerVars PROVE RunnerInv'
    OBVIOUS
  <1>1. CASE CandleThread
    BY <1>1, ThreadMoves, RecordOnlySteps, OverlayPublishedSteps, PublishSteps, OverlayFailsSteps
       DEF CandleThread
  <1>2. ASSUME NEW s \in Strategies, ExpireOldest(s) PROVE RunnerInv'
    BY <1>2, ExpireSteps
  <1>3. CASE UNCHANGED runnerVars
    BY <1>3 DEF runnerVars, RunnerInv, Types, RunnerTypeOK, InCycle, AtOverlay, SentOnce,
                HandedOver, InFlight, configVars, linkVars, zoneVars, outVars
  <1> QED
    BY <1>1, <1>2, <1>3, OutsideSteps DEF RunnerNext

LEMMA RunnerInvariant == RunnerSpec => []RunnerInv
  BY InitRunner, NextRunner, PTL DEF RunnerSpec

(* The memories of the runner stay within their size and hold no zone twice, and every   *)
(* variable has its type.                                                                *)
THEOREM RunnerTypeCorrect == RunnerSpec => []RunnerTypeOK
  <1>1. RunnerInv => RunnerTypeOK
    BY DEF RunnerInv, Types
  <1> QED
    BY <1>1, RunnerInvariant, PTL

(* Within the 24 hours of its memory a zone enters the stream once, though XADD may raise *)
(* after it has worked, the overlay may fail and the memory makes room by forgetting.    *)
THEOREM ZoneOnce == RunnerSpec => []OncePerZone
  <1>1. RunnerInv => OncePerZone
    <2> SUFFICES ASSUME RunnerInv, NEW p \in Pairs PROVE sent[p] <= 1 \/ p \in excused
      BY DEF OncePerZone
    <2>1. PICK s \in Strategies, z \in Zones : p = <<s, z>>
      BY DEF Pairs
    <2>2. p \in excused \/ sent[p] = 0 \/ sent[p] = 1
      BY <2>1 DEF RunnerInv, SentOnce
    <2> QED
      BY <2>2
  <1> QED
    BY <1>1, RunnerInvariant, PTL

(* Between two updates everything in the stream has reached the persister, except for    *)
(* what a failed cycle left behind.                                                      *)
THEOREM StreamIsPersisted == RunnerSpec => []PublishedIsPersisted
  <1>1. RunnerInv => PublishedIsPersisted
    <2> SUFFICES ASSUME RunnerInv, run.pc = "idle", NEW p \in stream
                 PROVE  p \in persisted \cup excused
      BY DEF PublishedIsPersisted
    <2>1. PICK s \in Strategies, z \in Zones : p = <<s, z>>
      BY DEF RunnerInv, Types, RunnerTypeOK, Pairs
    <2> QED
      BY <2>1 DEF RunnerInv, HandedOver, InFlight
  <1> QED
    BY <1>1, RunnerInvariant, PTL

-----------------------------------------------------------------------------
(* The persister.  Once(seq, x) says that x occurs at most once in seq. *)

Once(seq, x) == \A i, j \in DOMAIN seq : (seq[i] = x /\ seq[j] = x) => i = j

LEMMA OnceOfAppend ==
    ASSUME NEW S, NEW seq \in Seq(S), NEW e \in S
    PROVE  /\ Append(seq, e) \in Seq(S) /\ Entries(Append(seq, e)) = Entries(seq) \cup {e}
           /\ \A x : (Once(seq, x) /\ (x = e => x \notin Entries(seq))) => Once(Append(seq, e), x)
  <1> DEFINE long == Append(seq, e)
  <1>1. /\ long \in Seq(S) /\ long[Len(seq) + 1] = e
        /\ \A i \in 1 .. Len(seq) : long[i] = seq[i]
        /\ Len(seq) \in Nat /\ DOMAIN seq = 1 .. Len(seq) /\ DOMAIN long = 1 .. Len(seq) + 1
    BY AppendProperties, LenProperties
  <1>2. Entries(long) = Entries(seq) \cup {e}
    BY EntriesOfAppend
  <1> HIDE DEF long
  <1>3. ASSUME NEW x, Once(seq, x), x = e => x \notin Entries(seq) PROVE Once(long, x)
    BY <1>1, <1>3 DEF Once, Entries
  <1> QED
    BY <1>1, <1>2, <1>3 DEF long

LEMMA OnceOfTail ==
    ASSUME NEW S, NEW seq \in Seq(S), seq # <<>>
    PROVE  /\ Head(seq) \in S /\ Tail(seq) \in Seq(S) /\ Len(Tail(seq)) = Len(seq) - 1
           /\ Entries(seq) = Entries(Tail(seq)) \cup {Head(seq)}
           /\ \A x : Once(seq, x) => /\ Once(Tail(seq), x)
                                     /\ x = Head(seq) => x \notin Entries(Tail(seq))
  <1> DEFINE rest == Tail(seq)
  <1>1. /\ \A i \in 1 .. Len(rest) : rest[i] = seq[i + 1]
        /\ DOMAIN seq = 1 .. Len(seq) /\ DOMAIN rest = 1 .. Len(seq) - 1 /\ Len(seq) \in Nat
        /\ Len(rest) = Len(seq) - 1 /\ Len(seq) > 0 /\ Head(seq) = seq[1]
    BY HeadTailProperties, LenProperties, EmptySeq
  <1> HIDE DEF rest
  <1>2. ASSUME NEW x, Once(seq, x) PROVE Once(rest, x) /\ (x = Head(seq) => x \notin Entries(rest))
    <2>1. ASSUME NEW i \in DOMAIN rest
          PROVE  i + 1 \in DOMAIN seq /\ rest[i] = seq[i + 1] /\ i + 1 # 1
      BY <1>1, <2>1
    <2>2. ASSUME NEW i \in DOMAIN rest, NEW j \in DOMAIN rest, rest[i] = x, rest[j] = x
          PROVE  i = j
      <3>1. i + 1 = j + 1
        BY <1>2, <2>1, <2>2 DEF Once
      <3> QED
        BY <1>1, <3>1
    <2>3. ASSUME NEW i \in DOMAIN rest, rest[i] = x, x = seq[1] PROVE FALSE
      <3>1. 1 \in DOMAIN seq
        BY <1>1
      <3> QED
        BY <1>2, <2>1, <2>3, <3>1 DEF Once
    <2> QED
      BY <1>1, <2>2, <2>3 DEF Once, Entries
  <1> QED
    BY <1>2, EntriesOfTail DEF rest

(* An entry put in front. *)
LEMMA OnceOfPush ==
    ASSUME NEW S, NEW seq \in Seq(S), NEW e \in S
    PROVE  LET long == <<e>> \o seq
           IN  /\ long \in Seq(S) /\ Len(long) = Len(seq) + 1
               /\ Entries(long) = Entries(seq) \cup {e}
               /\ \A x : (Once(seq, x) /\ (x = e => x \notin Entries(seq))) => Once(long, x)
  <1> DEFINE long == <<e>> \o seq
  <1>1. <<e>> \in Seq(S) /\ Len(<<e>>) = 1 /\ <<e>>[1] = e
    OBVIOUS
  <1>2. /\ long \in Seq(S) /\ Len(long) = Len(seq) + 1 /\ Len(seq) \in Nat
        /\ \A i \in 1 .. Len(seq) + 1 : long[i] = IF i <= 1 THEN e ELSE seq[i - 1]
        /\ DOMAIN seq = 1 .. Len(seq) /\ DOMAIN long = 1 .. Len(seq) + 1
    BY <1>1, ConcatProperties, LenProperties
  <1> HIDE DEF long
  <1>3. long[1] = e /\ \A i \in DOMAIN seq : i + 1 \in DOMAIN long /\ long[i + 1] = seq[i]
    BY <1>2
  <1>4. \A i \in DOMAIN long : i # 1 => i - 1 \in DOMAIN seq /\ long[i] = seq[i - 1]
    BY <1>2
  <1>5. Entries(long) = Entries(seq) \cup {e}
    BY <1>2, <1>3, <1>4 DEF Entries
  <1>6. ASSUME NEW x, Once(seq, x), x = e => x \notin Entries(seq) PROVE Once(long, x)
    <2> SUFFICES ASSUME NEW i \in DOMAIN long, NEW j \in DOMAIN long, long[i] = x, long[j] = x
                 PROVE  i = j
      BY DEF Once
    <2>1. CASE x = e
      <3>1. \A k \in DOMAIN seq : seq[k] # x
        BY <1>6, <2>1 DEF Entries
      <3> QED
        BY <1>4, <3>1
    <2>2. CASE x # e
      <3>1. i # 1 /\ j # 1
        BY <1>3, <2>2
      <3>2. i - 1 = j - 1
        BY <1>4, <1>6, <3>1 DEF Once
      <3> QED
        BY <1>2, <3>2
    <2> QED
      BY <2>1, <2>2
  <1> QED
    BY <1>2, <1>5, <1>6 DEF long

(* A full sequence without its last entry. *)
LEMMA OnceOfFront ==
    ASSUME NEW S, NEW seq \in Seq(S), NEW n \in Nat \ {0}, Len(seq) = n
    PROVE  LET front == SubSeq(seq, 1, n - 1)
           IN  /\ front \in Seq(S) /\ Len(front) = n - 1 /\ seq[n] \in S
               /\ Entries(seq) = Entries(front) \cup {seq[n]}
               /\ \A x : Once(seq, x) => Once(front, x) /\ (x = seq[n] => x \notin Entries(front))
  <1> DEFINE front == SubSeq(seq, 1, n - 1)
  <1>1. DOMAIN seq = 1 .. n /\ \A i \in 1 .. n : seq[i] \in S
    BY LenProperties
  <1>2. \A i \in 1 .. n - 1 : seq[i] \in S
    BY <1>1
  <1>3. /\ front \in Seq(S) /\ Len(front) = IF 1 <= n - 1 THEN n - 1 - 1 + 1 ELSE 0
        /\ \A i \in 1 .. n - 1 - 1 + 1 : front[i] = seq[1 + i - 1]
    BY <1>2, SubSeqProperties
  <1>4. /\ Len(front) = n - 1 /\ DOMAIN front = 1 .. n - 1
        /\ \A i \in 1 .. n - 1 : front[i] = seq[i]
    <2>1. Len(front) = n - 1
      BY <1>3
    <2>2. DOMAIN front = 1 .. n - 1
      BY <1>3, <2>1, LenProperties
    <2>3. ASSUME NEW i \in 1 .. n - 1 PROVE front[i] = seq[i]
      BY <1>3, <2>3
    <2> QED
      BY <2>1, <2>2, <2>3
  <1> HIDE DEF front
  <1>5. Entries(seq) = Entries(front) \cup {seq[n]}
    BY <1>1, <1>4 DEF Entries
  <1>6. ASSUME NEW x, Once(seq, x) PROVE Once(front, x) /\ (x = seq[n] => x \notin Entries(front))
    BY <1>1, <1>4, <1>6 DEF Once, Entries
  <1> QED
    BY <1>1, <1>3, <1>4, <1>5, <1>6 DEF front

(* The breaker: a thread's step inside execute touches that thread alone, and reports a *)
(* success only of a call that was made while the backend was up.                       *)
LEMMA InsideSteps ==
    ASSUME BreakerTypeOK, NEW t \in Threads, Inside(t)
    PROVE  /\ BreakerTypeOK' /\ pc[t] # "idle" /\ pc'[t] # "idle" /\ up' = up
           /\ \A u \in Threads \ {t} : pc'[u] = pc[u] /\ out'[u] = out[u]
           /\ out'[t] = "ok" => \/ out[t] = "ok"
                                \/ up /\ pc[t] \in {"normal", "probing"}
  <1> USE DEF BreakerTypeOK, Steps, Goto
  <1>1. CASE Dispatch(t)
    BY <1>1 DEF Dispatch
  <1>2. CASE DispatchAgain(t)
    BY <1>2 DEF DispatchAgain
  <1>3. CASE ReturnClosed(t)
    BY <1>3 DEF ReturnClosed
  <1>4. CASE OnSuccess(t)
    BY <1>4 DEF OnSuccess
  <1>5. CASE OnFailure(t)
    <2>1. failures' \in Nat /\ failures' = failures + 1
      BY <1>5 DEF OnFailure
    <2> QED
      BY <1>5, <2>1 DEF OnFailure
  <1>6. CASE Open(t)
    BY <1>6 DEF Open, TransitionTo
  <1>7. CASE Stamp(t)
    BY <1>7 DEF Stamp
  <1>8. CASE CheckElapsed(t)
    BY <1>8 DEF CheckElapsed
  <1>9. CASE HalfOpen(t)
    BY <1>9 DEF HalfOpen, TransitionTo
  <1>10. CASE Claim(t)
    BY <1>10 DEF Claim
  <1>11. CASE ReturnProbe(t)
    BY <1>11 DEF ReturnProbe
  <1>12. CASE OnProbeSuccess(t)
    BY <1>12 DEF OnProbeSuccess, TransitionTo
  <1>13. CASE OnProbeFailure(t)
    BY <1>13 DEF OnProbeFailure, TransitionTo
  <1> QED
    BY <1>1, <1>2, <1>3, <1>4, <1>5, <1>6, <1>7, <1>8, <1>9, <1>10, <1>11, <1>12, <1>13 DEF Inside

LEMMA OutsideExecute ==
    ASSUME BreakerTypeOK, NEW t \in Threads, Call(t) \/ Leave(t)
    PROVE  /\ BreakerTypeOK' /\ UNCHANGED up
           /\ \A u \in Threads \ {t} : pc'[u] = pc[u] /\ out'[u] = out[u]
           /\ Call(t) => out'[t] = out[t]
           /\ Leave(t) => pc'[t] = "idle" /\ out'[t] = "none"
  <1> USE DEF BreakerTypeOK, Steps, Goto
  <1>1. CASE Call(t)
    BY <1>1 DEF Call, Leave
  <1>2. CASE Leave(t)
    BY <1>2 DEF Leave, Call
  <1> QED
    BY <1>1, <1>2

(* The two flags are Boolean values, which the steps that set them need to themselves. *)
LEMMA TimeSteps ==
    ASSUME BreakerTypeOK, Elapse \/ Change
    PROVE  BreakerTypeOK' /\ UNCHANGED <<pc, out>>
  <1>1. CASE Elapse
    BY <1>1 DEF BreakerTypeOK, Elapse
  <1>2. CASE Change
    BY <1>2 DEF BreakerTypeOK, Change
  <1> QED
    BY <1>1, <1>2

(* A set whose members are all equal has none or one. *)
LEMMA CountOfOne ==
    ASSUME NEW S, \A x, y \in S : x = y
    PROVE  Cardinality(S) = IF S = {} THEN 0 ELSE 1
  <1>1. CASE S = {}
    BY <1>1, FS_EmptySet
  <1>2. CASE S # {}
    <2>1. PICK x \in S : TRUE
      BY <1>2
    <2>2. S = {x}
      BY <2>1
    <2>3. Cardinality({x}) = 1
      BY FS_Singleton
    <2> QED
      BY <1>2, <2>2, <2>3
  <1> QED
    BY <1>1, <1>2

-----------------------------------------------------------------------------
(* Which probe holds the flag. *)

ProbeInv == /\ \A t, u \in Threads : pc[t] = "probing" /\ pc[u] = "probing" => t = u
            /\ flag <=> \E t \in Threads : pc[t] = "probing"

LEMMA ProbeSteps ==
    ASSUME BreakerTypeOK, ProbeInv, BreakerNext
    PROVE  ProbeInv'
  <1> DEFINE Same(t) == /\ pc[t] # "probing" /\ pc'[t] # "probing" /\ UNCHANGED flag
                        /\ \A u \in Threads \ {t} : pc'[u] = pc[u]
  <1>1. ASSUME NEW t \in Threads, Same(t) PROVE ProbeInv'
    BY <1>1, Zenon DEF ProbeInv
  <1>2. ASSUME NEW t \in Threads, Claim(t) PROVE ProbeInv'
    <2>1. pc \in [Threads -> Steps \cup {"idle"}] /\ pc[t] = "claim"
      BY <1>2 DEF BreakerTypeOK, Claim
    <2>2. CASE ~flag /\ flag' = TRUE /\ Goto(t, "probing")
      <3>1. /\ flag' /\ pc'[t] = "probing" /\ \A u \in Threads \ {t} : pc'[u] = pc[u]
            /\ \A u \in Threads : pc[u] # "probing"
        BY <2>1, <2>2 DEF ProbeInv, Goto
      <3> QED
        BY <3>1, Zenon DEF ProbeInv
    <2>3. CASE flag /\ Goto(t, "done") /\ UNCHANGED flag
      <3>1. Same(t)
        BY <2>1, <2>3 DEF Goto
      <3> QED
        BY <1>1, <3>1
    <2> QED
      BY <1>2, <2>2, <2>3 DEF Claim
  <1>3. ASSUME NEW t \in Threads, ReturnProbe(t) PROVE ProbeInv'
    <2>1. /\ pc[t] = "probing" /\ pc'[t] # "probing" /\ flag' = FALSE
          /\ \A u \in Threads \ {t} : pc'[u] = pc[u]
      BY <1>3 DEF BreakerTypeOK, ReturnProbe, Goto
    <2> QED
      BY <2>1, Zenon DEF ProbeInv
  <1>4. ASSUME NEW t \in Threads,
               \/ Dispatch(t) \/ DispatchAgain(t) \/ ReturnClosed(t) \/ OnSuccess(t)
               \/ OnFailure(t) \/ Stamp(t) \/ CheckElapsed(t) \/ Call(t) \/ Leave(t)
        PROVE  ProbeInv'
    <2>1. Same(t)
      BY <1>4 DEF BreakerTypeOK, Goto, Dispatch, DispatchAgain, ReturnClosed, OnSuccess,
                  OnFailure, Stamp, CheckElapsed, Call, Leave
    <2> QED
      BY <1>1, <2>1
  <1>5. ASSUME NEW t \in Threads,
               Open(t) \/ HalfOpen(t) \/ OnProbeSuccess(t) \/ OnProbeFailure(t)
        PROVE  ProbeInv'
    <2>1. Same(t)
      BY <1>5 DEF BreakerTypeOK, Goto, TransitionTo, Open, HalfOpen, OnProbeSuccess, OnProbeFailure
    <2> QED
      BY <1>1, <2>1
  <1>6. CASE Elapse \/ Change
    <2>1. UNCHANGED <<pc, flag>>
      BY <1>6 DEF Elapse, Change
    <2> QED
      BY <2>1, Zenon DEF ProbeInv
  <1> QED
    BY <1>2, <1>3, <1>4, <1>5, <1>6 DEF BreakerNext, Inside

(* Threads that call execute as they like, without a lock: one probes at a time, and the *)
(* flag is up exactly while one does.                                                    *)
THEOREM OneProbeOfThreads == BreakerSpec => []OneThreadProbes
  <1>1. BreakerInit => BreakerTypeOK /\ ProbeInv
    <2> SUFFICES ASSUME BreakerInit PROVE BreakerTypeOK /\ ProbeInv
      OBVIOUS
    <2>1. (\A t \in Threads : pc[t] # "probing") /\ ~flag
      BY DEF BreakerInit
    <2>2. ProbeInv
      BY <2>1, Zenon DEF ProbeInv
    <2> QED
      BY <2>2 DEF BreakerInit, BreakerTypeOK, Steps
  <1>2. BreakerTypeOK /\ ProbeInv /\ [BreakerNext]_breakerVars => BreakerTypeOK' /\ ProbeInv'
    <2> SUFFICES ASSUME BreakerTypeOK, ProbeInv, [BreakerNext]_breakerVars
                 PROVE  BreakerTypeOK' /\ ProbeInv'
      OBVIOUS
    <2>1. CASE BreakerNext
      BY <2>1, ProbeSteps, InsideSteps, OutsideExecute, TimeSteps DEF BreakerNext
    <2>2. CASE UNCHANGED breakerVars
      <3>1. UNCHANGED <<state, failures, flag, aged, up, pc, out>>
        BY <2>2 DEF breakerVars
      <3> QED
        BY <3>1, Zenon DEF BreakerTypeOK, ProbeInv
    <2> QED
      BY <2>1, <2>2
  <1>3. ProbeInv => OneThreadProbes
    <2> SUFFICES ASSUME ProbeInv PROVE Cardinality({t \in Threads : pc[t] = "probing"}) <= 1
      BY Zenon DEF OneThreadProbes, ProbeInv
    <2> DEFINE probing == {t \in Threads : pc[t] = "probing"}
    <2>1. \A t, u \in probing : t = u
      BY DEF ProbeInv
    <2> HIDE DEF probing
    <2>2. Cardinality(probing) <= 1
      BY <2>1, CountOfOne
    <2> QED
      BY <2>2 DEF probing
  <1> QED
    BY <1>1, <1>2, <1>3, PTL DEF BreakerSpec

-----------------------------------------------------------------------------
(* A signal of the persister is at one place at most, and a thread that has one is at   *)
(* work on it.                                                                          *)

InHand(s) == \E t \in Threads : hand[t] = s

OnePlace(s) == /\ Once(queue, s) /\ Once(buffer, s)
               /\ \A t, u \in Threads : hand[t] = s /\ hand[u] = s => t = u
               /\ ~(s \in Entries(queue) /\ s \in Entries(buffer))
               /\ ~(s \in Entries(queue) /\ InHand(s))
               /\ ~(s \in Entries(buffer) /\ InHand(s))

OnItsWay(s) == s \in Entries(queue) \/ s \in Entries(buffer) \/ InHand(s)

Placed == \A s \in Signals : OnePlace(s) /\ (OnItsWay(s) => s <= made)

Kept == \A s \in 1 .. made : OnItsWay(s) \/ s \in delivered \cup evicted

AtWork == \A t \in Threads :
              /\ hand[t] # 0 <=> task[t] \in {"persist", "full", "append", "send"}
              /\ task[t] # "persist" => pc[t] = "idle"
              /\ pc[t] = "idle" => out[t] = "none"
              /\ out[t] = "ok" => hand[t] \in delivered

PersisterInv == TypeOK /\ AtWork /\ Placed /\ Kept

(* Giving a thread another signal, or none. *)
LEMMA HandSteps ==
    ASSUME TypeOK, NEW t \in Threads, NEW x \in Signals \cup {0}, hand' = [hand EXCEPT ![t] = x]
    PROVE  /\ hand' \in [Threads -> Signals \cup {0}]
           /\ hand'[t] = x /\ \A u \in Threads \ {t} : hand'[u] = hand[u]
           /\ \A s : InHand(s)' => s = x \/ (InHand(s) /\ \E u \in Threads \ {t} : hand[u] = s)
           /\ \A s : InHand(s) => InHand(s)' \/ s = hand[t]
           /\ InHand(x)'
  <1>1. /\ hand' \in [Threads -> Signals \cup {0}] /\ hand'[t] = x
        /\ \A u \in Threads \ {t} : hand'[u] = hand[u]
    BY DEF TypeOK
  <1> QED
    BY <1>1 DEF InHand

LEMMA InitPersister == Init => PersisterInv
  <1> SUFFICES ASSUME Init PROVE PersisterInv
    OBVIOUS
  <1>1. BreakerTypeOK
    BY DEF Init, BreakerInit, BreakerTypeOK, Steps
  <1>2. TypeOK
    BY <1>1, BufferAssumption DEF Init, TypeOK
  <1>3. AtWork
    BY DEF Init, BreakerInit, AtWork
  <1>4. \A s \in Signals : ~OnItsWay(s) /\ OnePlace(s)
    BY BufferAssumption DEF Init, OnItsWay, OnePlace, Once, Entries, InHand, Signals
  <1>5. Placed /\ Kept
    BY <1>4, BufferAssumption DEF Placed, Kept, Init
  <1> QED
    BY <1>2, <1>3, <1>5 DEF PersisterInv

LEMMA MadeAreSignals == TypeOK => \A s \in 1 .. made : s \in Signals
  BY BufferAssumption DEF TypeOK, Signals

LEMMA BreakerRests ==
    ASSUME PersisterInv, UNCHANGED breakerVars
    PROVE  BreakerTypeOK' /\ UNCHANGED <<pc, out>>
  BY DEF PersisterInv, TypeOK, BreakerTypeOK, breakerVars

(* persist: the new signal is nowhere else yet. *)
LEMMA PersistSteps == ASSUME PersisterInv, Persist PROVE PersisterInv'
  <1> DEFINE n == made + 1
  <1>1. made \in Nat /\ made < MaxSignals /\ n \in Signals /\ n # Flush /\ n \in 0 .. MaxSignals
    BY BufferAssumption DEF PersisterInv, TypeOK, Persist, Signals, Flush
  <1>2. queue' = Append(queue, n) /\ made' = n
        /\ UNCHANGED <<breakerVars, task, hand, buffer, overflow, delivered, evicted>>
    BY DEF Persist
  <1> HIDE DEF n
  <1>3. /\ queue' \in Seq(Signals \cup {Flush}) /\ Entries(queue') = Entries(queue) \cup {n}
        /\ \A x : (Once(queue, x) /\ (x = n => x \notin Entries(queue))) => Once(queue', x)
    <2>1. queue \in Seq(Signals \cup {Flush}) /\ n \in Signals \cup {Flush}
      BY <1>1 DEF PersisterInv, TypeOK
    <2> QED
      BY <1>2, <2>1, OnceOfAppend
  <1>4. ~OnItsWay(n) /\ n \in Nat /\ n = made + 1
    BY <1>1 DEF PersisterInv, Placed, n, Signals
  <1>5. TypeOK'
    BY <1>1, <1>2, <1>3, BreakerRests, Zenon DEF PersisterInv, TypeOK
  <1>6. AtWork'
    BY <1>2 DEF PersisterInv, AtWork, breakerVars
  <1>7. Placed'
    <2> SUFFICES ASSUME NEW s \in Signals PROVE OnePlace(s)' /\ (OnItsWay(s)' => s <= made')
      BY DEF Placed
    <2>1. OnePlace(s) /\ (OnItsWay(s) => s <= made) /\ (InHand(s)' <=> InHand(s))
      BY <1>2 DEF PersisterInv, Placed, InHand
    <2>2. OnePlace(s)'
      BY <1>2, <1>3, <1>4, <2>1 DEF OnePlace, OnItsWay
    <2>3. OnItsWay(s)' => OnItsWay(s) \/ s = n
      BY <1>2, <1>3, <2>1 DEF OnItsWay
    <2>4. s \in Int /\ made \in Int
      BY <1>1, BufferAssumption DEF Signals
    <2> QED
      BY <1>2, <1>4, <2>1, <2>2, <2>3, <2>4
  <1>8. Kept'
    <2> SUFFICES ASSUME NEW s \in 1 .. n PROVE s \in Entries(queue') \/ OnItsWay(s) \/ s \in delivered \cup evicted
      BY <1>2, <1>3 DEF Kept, OnItsWay, InHand
    <2>1. s = n \/ s \in 1 .. made
      BY <1>1, <1>4
    <2> QED
      BY <1>3, <2>1 DEF PersisterInv, Kept
  <1> QED
    BY <1>5, <1>6, <1>7, <1>8 DEF PersisterInv

(* A pool thread takes a flush, or a signal to its hand. *)
LEMMA TakeTaskSteps == ASSUME PersisterInv, NEW t \in Threads, TakeTask(t) PROVE PersisterInv'
  <1> DEFINE x == Head(queue)
             rest == Tail(queue)
  <1>1. queue \in Seq(Signals \cup {Flush}) /\ queue # <<>>
    BY DEF PersisterInv, TypeOK, TakeTask
  <1>2. /\ x \in Signals \cup {Flush} /\ rest \in Seq(Signals \cup {Flush})
        /\ Entries(queue) = Entries(rest) \cup {x}
        /\ \A y : Once(queue, y) => Once(rest, y) /\ (y = x => y \notin Entries(rest))
    BY <1>1, OnceOfTail
  <1>3. /\ queue' = rest /\ UNCHANGED <<made, buffer, overflow, delivered, evicted>>
        /\ task[t] = "none"
        /\ \/ x = Flush /\ task' = [task EXCEPT ![t] = "flush"] /\ UNCHANGED <<hand, breakerVars>>
           \/ /\ x # Flush /\ task' = [task EXCEPT ![t] = "persist"]
              /\ hand' = [hand EXCEPT ![t] = x] /\ Call(t)
    BY DEF TakeTask
  <1> HIDE DEF x, rest
  <1>4. /\ TypeOK /\ AtWork /\ BreakerTypeOK /\ hand[t] = 0 /\ pc[t] = "idle"
        /\ task \in [Threads -> {"none", "persist", "full", "append", "flush", "send"}]
    BY <1>3 DEF PersisterInv, AtWork, TypeOK
  <1>5. \A s \in Signals : s # 0 /\ s # Flush
    BY BufferAssumption DEF Signals, Flush
  <1>6. CASE x = Flush /\ task' = [task EXCEPT ![t] = "flush"] /\ UNCHANGED <<hand, breakerVars>>
    <2>1. TypeOK'
      BY <1>2, <1>3, <1>4, <1>6, BreakerRests DEF TypeOK
    <2>2. AtWork'
      BY <1>3, <1>4, <1>6, BreakerRests DEF AtWork
    <2>3. ASSUME NEW s \in Signals
          PROVE  /\ s \in Entries(queue') <=> s \in Entries(queue)
                 /\ Once(queue, s) => Once(queue', s)
                 /\ InHand(s)' <=> InHand(s)
      BY <1>2, <1>3, <1>5, <1>6, <2>3 DEF InHand
    <2>4. Placed'
      BY <1>3, <1>6, <2>3 DEF PersisterInv, Placed, OnePlace, OnItsWay
    <2>5. \A s \in 1 .. made : s \in Signals
      BY <1>4, MadeAreSignals
    <2>6. Kept'
      BY <1>3, <1>6, <2>3, <2>5 DEF PersisterInv, Kept, OnItsWay
    <2> QED
      BY <2>1, <2>2, <2>4, <2>6 DEF PersisterInv
  <1>7. CASE /\ x # Flush /\ task' = [task EXCEPT ![t] = "persist"]
             /\ hand' = [hand EXCEPT ![t] = x] /\ Call(t)
    <2>1. x \in Signals
      BY <1>2, <1>7
    <2>2. /\ hand' \in [Threads -> Signals \cup {0}]
          /\ hand'[t] = x /\ \A u \in Threads \ {t} : hand'[u] = hand[u]
          /\ \A s : InHand(s)' => s = x \/ (InHand(s) /\ \E u \in Threads \ {t} : hand[u] = s)
          /\ \A s : InHand(s) => InHand(s)' \/ s = hand[t]
      BY <1>4, <1>7, <2>1, HandSteps
    <2>3. /\ BreakerTypeOK' /\ \A u \in Threads \ {t} : pc'[u] = pc[u] /\ out'[u] = out[u]
          /\ out'[t] = out[t] /\ pc'[t] = "dispatch"
      BY <1>4, <1>7, OutsideExecute DEF Call, Goto, BreakerTypeOK
    <2>4. TypeOK'
      BY <1>2, <1>3, <1>4, <1>7, <2>2, <2>3 DEF TypeOK
    <2>5. AtWork'
      BY <1>3, <1>4, <1>5, <1>7, <2>1, <2>2, <2>3 DEF AtWork
    <2>6. Placed'
      <3> SUFFICES ASSUME NEW s \in Signals PROVE OnePlace(s)' /\ (OnItsWay(s)' => s <= made)
        BY <1>3 DEF Placed
      <3>1. OnePlace(s) /\ (OnItsWay(s) => s <= made)
        BY DEF PersisterInv, Placed
      <3>2. CASE s = x
        <4>1. ~InHand(s) /\ s \notin Entries(queue') /\ s \notin Entries(buffer')
          BY <1>2, <1>3, <3>1, <3>2 DEF OnePlace
        <4>2. \A u \in Threads : hand'[u] = s => u = t
          BY <2>2, <4>1 DEF InHand
        <4> QED
          BY <1>2, <1>3, <3>1, <3>2, <4>1, <4>2 DEF OnePlace, OnItsWay
      <3>3. CASE s # x
        <4>1. (InHand(s)' => InHand(s)) /\ (s \in Entries(queue') => s \in Entries(queue))
          BY <1>2, <1>3, <2>2, <3>3
        <4>2. \A u, v \in Threads : hand'[u] = s /\ hand'[v] = s => u = v
          BY <2>2, <3>1, <3>3 DEF OnePlace
        <4> QED
          BY <1>2, <1>3, <3>1, <4>1, <4>2 DEF OnePlace, OnItsWay
      <3> QED
        BY <3>2, <3>3
    <2>7. Kept'
      <3> SUFFICES ASSUME NEW s \in 1 .. made PROVE OnItsWay(s)' \/ s \in delivered' \cup evicted'
        BY <1>3 DEF Kept
      <3>1. s \in Signals
        BY <1>4, MadeAreSignals
      <3>2. OnItsWay(s) \/ s \in delivered \cup evicted
        BY DEF PersisterInv, Kept
      <3>3. InHand(s) => InHand(s)'
        BY <1>4, <1>5, <2>2, <3>1
      <3>4. s \in Entries(queue) => s \in Entries(queue') \/ InHand(s)'
        BY <1>2, <1>3, <2>2 DEF InHand
      <3> QED
        BY <1>3, <3>2, <3>3, <3>4 DEF OnItsWay
    <2> QED
      BY <2>4, <2>5, <2>6, <2>7 DEF PersisterInv
  <1> QED
    BY <1>3, <1>6, <1>7

(* Inside execute a signal stays in the hand, and a success means that it was delivered. *)
LEMMA BreakerStepSteps == ASSUME PersisterInv, NEW t \in Threads, BreakerStep(t) PROVE PersisterInv'
  <1>1. /\ TypeOK /\ AtWork /\ BreakerTypeOK /\ task[t] = "persist" /\ Inside(t)
        /\ hand[t] \in Signals
    BY DEF PersisterInv, AtWork, TypeOK, BreakerStep
  <1>2. /\ BreakerTypeOK' /\ pc[t] # "idle" /\ pc'[t] # "idle"
        /\ \A u \in Threads \ {t} : pc'[u] = pc[u] /\ out'[u] = out[u]
        /\ out'[t] = "ok" => out[t] = "ok" \/ (up /\ pc[t] \in {"normal", "probing"})
    BY <1>1, InsideSteps
  <1>3. /\ delivered \subseteq delivered' /\ delivered' \subseteq delivered \cup {hand[t]}
        /\ (up /\ pc[t] \in {"normal", "probing"}) => hand[t] \in delivered'
    <2>1. CASE pc[t] \in {"normal", "probing"}
      BY <2>1 DEF BreakerStep, Send
    <2>2. CASE pc[t] \notin {"normal", "probing"}
      BY <2>2 DEF BreakerStep
    <2> QED
      BY <2>1, <2>2
  <1>4. /\ queue' \in {queue, Append(queue, Flush)}
        /\ UNCHANGED <<made, task, hand, buffer, overflow, evicted>>
    BY DEF BreakerStep
  <1>5. /\ queue' \in Seq(Signals \cup {Flush})
        /\ \A s \in Signals : /\ s \in Entries(queue') <=> s \in Entries(queue)
                              /\ Once(queue, s) => Once(queue', s)
    <2>1. queue \in Seq(Signals \cup {Flush}) /\ \A s \in Signals : s # Flush
      BY <1>1, BufferAssumption DEF TypeOK, Signals, Flush
    <2>2. CASE queue' = Append(queue, Flush)
      BY <2>1, <2>2, OnceOfAppend
    <2> QED
      BY <1>4, <2>1, <2>2
  <1>6. TypeOK'
    BY <1>1, <1>2, <1>3, <1>4, <1>5 DEF TypeOK
  <1>7. AtWork'
    BY <1>1, <1>2, <1>3, <1>4 DEF AtWork
  <1>8. \A s : InHand(s)' <=> InHand(s)
    BY <1>4 DEF InHand
  <1>9. Placed'
    BY <1>4, <1>5, <1>8 DEF PersisterInv, Placed, OnePlace, OnItsWay
  <1>10. \A s \in 1 .. made : s \in Signals
    BY <1>1, MadeAreSignals
  <1>11. Kept'
    BY <1>3, <1>4, <1>5, <1>8, <1>10 DEF PersisterInv, Kept, OnItsWay
  <1> QED
    BY <1>6, <1>7, <1>9, <1>11 DEF PersisterInv

(* A thread lets go of its signal, which is delivered or goes to the buffer: what the     *)
(* steps that do so have in common.                                                       *)
LEMMA LettingGo ==
    ASSUME PersisterInv, NEW t \in Threads, NEW x \in Signals, hand[t] = x,
           hand' = [hand EXCEPT ![t] = 0], UNCHANGED <<made, queue>>,
           delivered \subseteq delivered', evicted \subseteq evicted',
           \A s \in Signals : s \in Entries(buffer') => s \in Entries(buffer) \/ s = x,
           \A s \in Signals : s \in Entries(buffer) => s \in Entries(buffer') \cup evicted',
           x \in Entries(buffer') \cup delivered',
           \A s \in Signals : Once(buffer, s) /\ (s = x => s \notin Entries(buffer)) => Once(buffer', s)
    PROVE  Placed' /\ Kept'
  <1>1. /\ hand'[t] = 0 /\ \A u \in Threads \ {t} : hand'[u] = hand[u]
        /\ \A s : InHand(s)' => s = 0 \/ (InHand(s) /\ \E u \in Threads \ {t} : hand[u] = s)
        /\ \A s : InHand(s) => InHand(s)' \/ s = x
    BY HandSteps DEF PersisterInv
  <1>2. \A s \in Signals : s # 0
    BY BufferAssumption DEF Signals
  <1>3. InHand(x) /\ OnePlace(x)
    BY DEF InHand, PersisterInv, Placed
  <1>4. Placed'
    <2> SUFFICES ASSUME NEW s \in Signals PROVE OnePlace(s)' /\ (OnItsWay(s)' => s <= made)
      BY DEF Placed
    <2>1. OnePlace(s) /\ (OnItsWay(s) => s <= made)
      BY DEF PersisterInv, Placed
    <2>2. s = x => ~InHand(s)'
      BY <1>1, <1>2, <1>3 DEF OnePlace
    <2>3. InHand(s)' => InHand(s)
      BY <1>1, <1>2
    <2>4. \A u, v \in Threads : hand'[u] = s /\ hand'[v] = s => u = v
      BY <1>1, <1>2, <2>1 DEF OnePlace
    <2>5. s \notin Entries(buffer) \/ s # x
      BY <1>3 DEF OnePlace
    <2>6. OnItsWay(s)' => OnItsWay(s)
      BY <1>3, <2>3 DEF OnItsWay
    <2>7. Once(queue', s) /\ Once(buffer', s)
      BY <2>1, <2>5 DEF OnePlace
    <2>8. /\ ~(s \in Entries(queue') /\ s \in Entries(buffer'))
          /\ ~(s \in Entries(queue') /\ InHand(s)') /\ ~(s \in Entries(buffer') /\ InHand(s)')
      BY <1>3, <2>1, <2>2, <2>3 DEF OnePlace
    <2> QED
      BY <2>1, <2>4, <2>6, <2>7, <2>8 DEF OnePlace
  <1>5. Kept'
    <2> SUFFICES ASSUME NEW s \in 1 .. made PROVE OnItsWay(s)' \/ s \in delivered' \cup evicted'
      BY DEF Kept
    <2>1. s \in Signals
      BY MadeAreSignals DEF PersisterInv
    <2>2. OnItsWay(s) \/ s \in delivered \cup evicted
      BY DEF PersisterInv, Kept
    <2> QED
      BY <1>1, <2>1, <2>2 DEF OnItsWay
  <1> QED
    BY <1>4, <1>5

(* After execute the signal is delivered, or on its way to the buffer. *)
LEMMA LeaveBreakerSteps == ASSUME PersisterInv, NEW t \in Threads, LeaveBreaker(t) PROVE PersisterInv'
  <1>1. /\ TypeOK /\ AtWork /\ BreakerTypeOK /\ task[t] = "persist" /\ Leave(t)
        /\ hand[t] \in Signals /\ hand[t] # 0
    BY DEF PersisterInv, AtWork, TypeOK, LeaveBreaker
  <1>2. /\ BreakerTypeOK' /\ pc'[t] = "idle" /\ out'[t] = "none"
        /\ \A u \in Threads \ {t} : pc'[u] = pc[u] /\ out'[u] = out[u]
    BY <1>1, OutsideExecute
  <1>3. UNCHANGED <<made, queue, buffer, overflow, delivered, evicted>>
    BY DEF LeaveBreaker
  <1>4. task \in [Threads -> {"none", "persist", "full", "append", "flush", "send"}]
    BY <1>1 DEF TypeOK
  <1>5. CASE out[t] = "ok"
    <2>1. task' = [task EXCEPT ![t] = "none"] /\ hand' = [hand EXCEPT ![t] = 0]
      BY <1>5 DEF LeaveBreaker
    <2>2. /\ hand' \in [Threads -> Signals \cup {0}]
          /\ hand'[t] = 0 /\ \A u \in Threads \ {t} : hand'[u] = hand[u]
      BY <1>1, <2>1, HandSteps
    <2>3. TypeOK'
      BY <1>1, <1>2, <1>3, <1>4, <2>1, <2>2 DEF TypeOK
    <2>4. AtWork'
      BY <1>1, <1>2, <1>3, <1>4, <2>1, <2>2 DEF AtWork
    <2>5. hand[t] \in delivered
      BY <1>1, <1>5 DEF AtWork
    <2>6. Placed' /\ Kept'
      BY <1>1, <1>3, <2>1, <2>5, LettingGo
    <2> QED
      BY <2>3, <2>4, <2>6 DEF PersisterInv
  <1>6. CASE out[t] # "ok"
    <2>1. task' = [task EXCEPT ![t] = "full"] /\ UNCHANGED hand
      BY <1>6 DEF LeaveBreaker
    <2>2. TypeOK'
      BY <1>1, <1>2, <1>3, <1>4, <2>1 DEF TypeOK
    <2>3. AtWork'
      BY <1>1, <1>2, <1>3, <1>4, <2>1 DEF AtWork
    <2>4. Placed' /\ Kept'
      BY <1>3, <2>1 DEF PersisterInv, Placed, Kept, OnePlace, OnItsWay, InHand
    <2> QED
      BY <2>2, <2>3, <2>4 DEF PersisterInv
  <1> QED
    BY <1>5, <1>6

LEMMA CountOverflowSteps == ASSUME PersisterInv, NEW t \in Threads, CountOverflow(t) PROVE PersisterInv'
  <1>1. TypeOK /\ AtWork /\ task[t] = "full" /\ task' = [task EXCEPT ![t] = "append"]
        /\ UNCHANGED <<breakerVars, made, queue, hand, buffer, delivered, evicted>>
    BY DEF PersisterInv, CountOverflow
  <1>2. overflow' \in Nat
    BY <1>1 DEF TypeOK, CountOverflow
  <1>3. TypeOK'
    BY <1>1, <1>2, BreakerRests DEF TypeOK
  <1>4. AtWork'
    BY <1>1, BreakerRests DEF AtWork, TypeOK
  <1>5. Placed' /\ Kept'
    BY <1>1 DEF PersisterInv, Placed, Kept, OnePlace, OnItsWay, InHand
  <1> QED
    BY <1>3, <1>4, <1>5 DEF PersisterInv

(* The newest signal pushes the oldest out of a full buffer. *)
LEMMA AppendSignalSteps == ASSUME PersisterInv, NEW t \in Threads, AppendSignal(t) PROVE PersisterInv'
  <1> DEFINE x == hand[t]
             rest == Tail(buffer)
  <1>1. /\ TypeOK /\ AtWork /\ task[t] = "append" /\ x \in Signals /\ task' = [task EXCEPT ![t] = "none"]
        /\ hand' = [hand EXCEPT ![t] = 0] /\ UNCHANGED <<breakerVars, made, queue, overflow, delivered>>
        /\ task \in [Threads -> {"none", "persist", "full", "append", "flush", "send"}]
        /\ buffer \in Seq(Signals) /\ Len(buffer) <= BufferMax /\ Len(buffer) \in Nat
    BY LenProperties DEF PersisterInv, AtWork, TypeOK, AppendSignal
  <1>2. /\ hand' \in [Threads -> Signals \cup {0}]
        /\ hand'[t] = 0 /\ \A u \in Threads \ {t} : hand'[u] = hand[u]
    BY <1>1, HandSteps
  <1>3. /\ buffer' \in Seq(Signals) /\ Len(buffer') <= BufferMax
        /\ evicted \subseteq evicted' /\ evicted' \subseteq Signals
        /\ Entries(buffer') \subseteq Entries(buffer) \cup {x} /\ x \in Entries(buffer')
        /\ Entries(buffer) \subseteq Entries(buffer') \cup evicted'
        /\ \A s \in Signals : Once(buffer, s) /\ (s = x => s \notin Entries(buffer)) => Once(buffer', s)
    <2>1. CASE Len(buffer) = BufferMax
      <3>1. buffer # <<>> /\ evicted \subseteq Signals
        BY <1>1, <2>1, BufferAssumption DEF TypeOK
      <3>2. buffer' = Append(rest, x) /\ evicted' = evicted \cup {Head(buffer)}
        BY <2>1 DEF AppendSignal
      <3>3. /\ Head(buffer) \in Signals /\ rest \in Seq(Signals) /\ Len(rest) = Len(buffer) - 1
            /\ Entries(buffer) = Entries(rest) \cup {Head(buffer)}
            /\ \A s : Once(buffer, s) => Once(rest, s)
        BY <1>1, <3>1, OnceOfTail
      <3> HIDE DEF x, rest
      <3>4. /\ buffer' \in Seq(Signals) /\ Len(buffer') = Len(rest) + 1
            /\ Entries(buffer') = Entries(rest) \cup {x}
            /\ \A s : (Once(rest, s) /\ (s = x => s \notin Entries(rest))) => Once(buffer', s)
        BY <1>1, <3>2, <3>3, OnceOfAppend, EntriesOfAppend
      <3> QED
        BY <1>1, <2>1, <3>1, <3>2, <3>3, <3>4
    <2>2. CASE Len(buffer) # BufferMax
      <3>1. buffer' = Append(buffer, x) /\ evicted' = evicted
        BY <2>2 DEF AppendSignal
      <3>2. /\ buffer' \in Seq(Signals) /\ Len(buffer') = Len(buffer) + 1
            /\ Entries(buffer') = Entries(buffer) \cup {x}
            /\ \A s : (Once(buffer, s) /\ (s = x => s \notin Entries(buffer))) => Once(buffer', s)
        BY <1>1, <3>1, OnceOfAppend, EntriesOfAppend
      <3>3. evicted \subseteq Signals
        BY <1>1 DEF TypeOK
      <3> QED
        BY <1>1, <2>2, <3>1, <3>2, <3>3, BufferAssumption
    <2> QED
      BY <2>1, <2>2
  <1> HIDE DEF x, rest
  <1>4. TypeOK'
    BY <1>1, <1>2, <1>3, BreakerRests DEF TypeOK
  <1>5. AtWork'
    BY <1>1, <1>2, BreakerRests DEF AtWork
  <1>6. Placed' /\ Kept'
    BY <1>1, <1>3, LettingGo DEF x
  <1> QED
    BY <1>4, <1>5, <1>6 DEF PersisterInv

(* The oldest signal of the buffer goes to the hand, so that a second flush cannot have it. *)
LEMMA FlushPopSteps == ASSUME PersisterInv, NEW t \in Threads, FlushPop(t) PROVE PersisterInv'
  <1> DEFINE x == Head(buffer)
             rest == Tail(buffer)
  <1>1. /\ TypeOK /\ AtWork /\ task[t] = "flush" /\ hand[t] = 0
        /\ task \in [Threads -> {"none", "persist", "full", "append", "flush", "send"}]
        /\ buffer \in Seq(Signals) /\ Len(buffer) <= BufferMax /\ Len(buffer) \in Nat
        /\ UNCHANGED <<breakerVars, made, queue, overflow, delivered, evicted>>
    BY LenProperties DEF PersisterInv, AtWork, TypeOK, FlushPop
  <1>2. \A s \in Signals : s # 0
    BY BufferAssumption DEF Signals
  <1>3. CASE buffer = <<>>
    <2>1. task' = [task EXCEPT ![t] = "none"] /\ UNCHANGED <<hand, buffer>>
      BY <1>3 DEF FlushPop
    <2>2. TypeOK'
      BY <1>1, <2>1, BreakerRests DEF TypeOK
    <2>3. AtWork'
      BY <1>1, <2>1, BreakerRests DEF AtWork
    <2>4. Placed' /\ Kept'
      BY <1>1, <2>1 DEF PersisterInv, Placed, Kept, OnePlace, OnItsWay, InHand
    <2> QED
      BY <2>2, <2>3, <2>4 DEF PersisterInv
  <1>4. CASE buffer # <<>>
    <2>1. /\ hand' = [hand EXCEPT ![t] = x] /\ buffer' = rest
          /\ task' = [task EXCEPT ![t] = "send"]
      BY <1>4 DEF FlushPop
    <2>2. /\ x \in Signals /\ rest \in Seq(Signals) /\ Len(rest) = Len(buffer) - 1
          /\ Entries(buffer) = Entries(rest) \cup {x}
          /\ \A s : Once(buffer, s) => Once(rest, s) /\ (s = x => s \notin Entries(rest))
      BY <1>1, <1>4, OnceOfTail
    <2> HIDE DEF x, rest
    <2>3. /\ hand' \in [Threads -> Signals \cup {0}]
          /\ hand'[t] = x /\ \A u \in Threads \ {t} : hand'[u] = hand[u]
          /\ \A s : InHand(s)' => s = x \/ (InHand(s) /\ \E u \in Threads \ {t} : hand[u] = s)
          /\ \A s : InHand(s) => InHand(s)' \/ s = 0
      BY <1>1, <2>1, <2>2, HandSteps
    <2>4. TypeOK'
      <3>1. Len(rest) <= BufferMax
        BY <1>1, <2>2, BufferAssumption
      <3> QED
        BY <1>1, <2>1, <2>2, <2>3, <3>1, BreakerRests DEF TypeOK
    <2>5. AtWork'
      <3>1. out[t] # "ok"
        BY <1>1 DEF AtWork
      <3> QED
        BY <1>1, <1>2, <2>1, <2>2, <2>3, <3>1, BreakerRests DEF AtWork
    <2>6. Placed'
      <3> SUFFICES ASSUME NEW s \in Signals PROVE OnePlace(s)' /\ (OnItsWay(s)' => s <= made)
        BY <1>1 DEF Placed
      <3>1. OnePlace(s) /\ (OnItsWay(s) => s <= made)
        BY DEF PersisterInv, Placed
      <3>2. CASE s = x
        <4>1. ~InHand(s) /\ s \notin Entries(queue') /\ s \notin Entries(buffer')
          BY <1>1, <2>1, <2>2, <3>1, <3>2 DEF OnePlace
        <4>2. \A u \in Threads : hand'[u] = s => u = t
          BY <2>3, <4>1 DEF InHand
        <4> QED
          BY <1>1, <2>1, <2>2, <3>1, <3>2, <4>1, <4>2 DEF OnePlace, OnItsWay
      <3>3. CASE s # x
        <4>1. (InHand(s)' => InHand(s)) /\ (s \in Entries(buffer') => s \in Entries(buffer))
          BY <2>1, <2>2, <2>3, <3>3
        <4>2. \A u, v \in Threads : hand'[u] = s /\ hand'[v] = s => u = v
          BY <2>3, <3>1, <3>3 DEF OnePlace
        <4> QED
          BY <1>1, <2>1, <2>2, <3>1, <4>1, <4>2 DEF OnePlace, OnItsWay
      <3> QED
        BY <3>2, <3>3
    <2>7. Kept'
      <3> SUFFICES ASSUME NEW s \in 1 .. made PROVE OnItsWay(s)' \/ s \in delivered' \cup evicted'
        BY <1>1 DEF Kept
      <3>1. s \in Signals /\ (OnItsWay(s) \/ s \in delivered \cup evicted)
        BY <1>1, MadeAreSignals DEF PersisterInv, Kept
      <3>2. InHand(s) => InHand(s)'
        BY <1>2, <2>3, <3>1
      <3>3. s \in Entries(buffer) => s \in Entries(buffer') \/ InHand(s)'
        BY <2>1, <2>2, <2>3 DEF InHand
      <3> QED
        BY <1>1, <3>1, <3>2, <3>3 DEF OnItsWay
    <2> QED
      BY <2>4, <2>5, <2>6, <2>7 DEF PersisterInv
  <1> QED
    BY <1>3, <1>4

(* A signal whose post fails goes back in front, and pushes the newest out of a full buffer. *)
LEMMA FlushSendSteps == ASSUME PersisterInv, NEW t \in Threads, FlushSend(t) PROVE PersisterInv'
  <1> DEFINE x == hand[t]
             front == SubSeq(buffer, 1, BufferMax - 1)
  <1>1. /\ TypeOK /\ AtWork /\ task[t] = "send" /\ x \in Signals
        /\ hand' = [hand EXCEPT ![t] = 0] /\ UNCHANGED <<breakerVars, made, queue, overflow>>
        /\ task \in [Threads -> {"none", "persist", "full", "append", "flush", "send"}]
        /\ buffer \in Seq(Signals) /\ Len(buffer) <= BufferMax /\ Len(buffer) \in Nat
        /\ evicted \subseteq Signals /\ delivered \subseteq Signals
    BY LenProperties DEF PersisterInv, AtWork, TypeOK, FlushSend
  <1>2. /\ hand' \in [Threads -> Signals \cup {0}]
        /\ hand'[t] = 0 /\ \A u \in Threads \ {t} : hand'[u] = hand[u]
    BY <1>1, HandSteps
  <1>3. /\ delivered \subseteq delivered' /\ delivered' \subseteq delivered \cup {x}
        /\ up => x \in delivered'
    BY DEF FlushSend, Send
  <1>4. \/ up /\ task' = [task EXCEPT ![t] = "flush"] /\ UNCHANGED <<buffer, evicted>>
        \/ ~up /\ task' = [task EXCEPT ![t] = "none"]
    BY DEF FlushSend
  <1>5. /\ buffer' \in Seq(Signals) /\ Len(buffer') <= BufferMax
        /\ evicted \subseteq evicted' /\ evicted' \subseteq Signals
        /\ Entries(buffer') \subseteq Entries(buffer) \cup {x} /\ x \in Entries(buffer') \cup delivered'
        /\ Entries(buffer) \subseteq Entries(buffer') \cup evicted'
        /\ \A s \in Signals : Once(buffer, s) /\ (s = x => s \notin Entries(buffer)) => Once(buffer', s)
    <2>1. CASE up
      BY <1>1, <1>3, <1>4, <2>1
    <2>2. CASE ~up /\ Len(buffer) = BufferMax
      <3>1. buffer' = <<x>> \o front /\ evicted' = evicted \cup {buffer[BufferMax]}
        BY <2>2 DEF FlushSend
      <3>2. /\ front \in Seq(Signals) /\ Len(front) = BufferMax - 1 /\ buffer[BufferMax] \in Signals
            /\ Entries(buffer) = Entries(front) \cup {buffer[BufferMax]}
            /\ \A s : Once(buffer, s) => Once(front, s)
        BY <1>1, <2>2, OnceOfFront, BufferAssumption
      <3> HIDE DEF x, front
      <3>3. /\ buffer' \in Seq(Signals) /\ Len(buffer') = Len(front) + 1
            /\ Entries(buffer') = Entries(front) \cup {x}
            /\ \A s : (Once(front, s) /\ (s = x => s \notin Entries(front))) => Once(buffer', s)
        BY <1>1, <3>1, <3>2, OnceOfPush
      <3> QED
        BY <1>1, <2>2, <3>1, <3>2, <3>3, BufferAssumption
    <2>3. CASE ~up /\ Len(buffer) # BufferMax
      <3>1. buffer' = <<x>> \o buffer /\ evicted' = evicted
        BY <2>3 DEF FlushSend
      <3> HIDE DEF x
      <3>2. /\ buffer' \in Seq(Signals) /\ Len(buffer') = Len(buffer) + 1
            /\ Entries(buffer') = Entries(buffer) \cup {x}
            /\ \A s : (Once(buffer, s) /\ (s = x => s \notin Entries(buffer))) => Once(buffer', s)
        BY <1>1, <3>1, OnceOfPush
      <3>3. Len(buffer') <= BufferMax
        BY <1>1, <2>3, <3>2, BufferAssumption
      <3> QED
        BY <1>1, <3>1, <3>2, <3>3
    <2> QED
      BY <2>1, <2>2, <2>3
  <1> HIDE DEF x, front
  <1>6. TypeOK'
    BY <1>1, <1>2, <1>3, <1>4, <1>5, BreakerRests DEF TypeOK
  <1>7. AtWork'
    BY <1>1, <1>2, <1>3, <1>4, BreakerRests DEF AtWork
  <1>8. Placed' /\ Kept'
    BY <1>1, <1>3, <1>5, LettingGo DEF x
  <1> QED
    BY <1>6, <1>7, <1>8 DEF PersisterInv

LEMMA NextPersister == PersisterInv /\ [Next]_vars => PersisterInv'
  <1> SUFFICES ASSUME PersisterInv, [Next]_vars PROVE PersisterInv'
    OBVIOUS
  <1>1. ASSUME NEW t \in Threads, PoolStep(t) PROVE PersisterInv'
    BY <1>1, TakeTaskSteps, BreakerStepSteps, LeaveBreakerSteps, CountOverflowSteps,
       AppendSignalSteps, FlushPopSteps, FlushSendSteps DEF PoolStep
  <1>2. ASSUME UNCHANGED persisterVars, BreakerTypeOK', UNCHANGED <<pc, out>> PROVE PersisterInv'
    BY <1>2 DEF PersisterInv, TypeOK, AtWork, Placed, Kept, OnePlace, OnItsWay, InHand, persisterVars
  <1>3. CASE (Elapse \/ Change) /\ UNCHANGED persisterVars
    BY <1>2, <1>3, TimeSteps DEF PersisterInv, TypeOK
  <1>4. CASE UNCHANGED vars
    BY <1>2, <1>4, BreakerRests DEF vars
  <1> QED
    BY <1>1, <1>3, <1>4, PersistSteps DEF Next

LEMMA PersisterInvariant == Spec => []PersisterInv
  BY InitPersister, NextPersister, PTL DEF Spec

(* The buffer of the persister stays within its size, and every variable has its type. *)
THEOREM PersisterTypeCorrect == Spec => []TypeOK
  <1>1. PersisterInv => TypeOK
    BY DEF PersisterInv
  <1> QED
    BY <1>1, PersisterInvariant, PTL

(* However many threads post, fall back, buffer and flush, a signal neither gets lost    *)
(* nor is on its way twice.                                                              *)
THEOREM NoSignalLost == Spec => []SignalsAccounted
  <1>1. PersisterInv => SignalsAccounted
    <2> SUFFICES ASSUME PersisterInv, NEW s \in 1 .. made
                 PROVE  Copies(s) <= 1 /\ (Copies(s) = 1 \/ s \in delivered \cup evicted)
      BY DEF SignalsAccounted
    <2> DEFINE Q == {i \in DOMAIN queue : queue[i] = s}
               B == {i \in DOMAIN buffer : buffer[i] = s}
               H == {t \in Threads : hand[t] = s}
    <2>1. OnePlace(s) /\ (OnItsWay(s) \/ s \in delivered \cup evicted)
      BY MadeAreSignals DEF PersisterInv, Placed, Kept
    <2>2. /\ \A x, y \in Q : x = y
          /\ \A x, y \in B : x = y
          /\ \A x, y \in H : x = y
      BY <2>1 DEF OnePlace, Once
    <2>3. /\ Q = {} \/ (B = {} /\ H = {})
          /\ B = {} \/ H = {}
      BY <2>1 DEF OnePlace, Entries, InHand
    <2>4. (Q # {} \/ B # {} \/ H # {}) \/ s \in delivered \cup evicted
      BY <2>1 DEF OnItsWay, Entries, InHand
    <2>5. Copies(s) = Cardinality(Q) + Cardinality(B) + Cardinality(H)
      BY DEF Copies
    <2> HIDE DEF Q, B, H
    <2>6. /\ Cardinality(Q) = IF Q = {} THEN 0 ELSE 1
          /\ Cardinality(B) = IF B = {} THEN 0 ELSE 1
          /\ Cardinality(H) = IF H = {} THEN 0 ELSE 1
      BY <2>2, CountOfOne
    <2> QED
      BY <2>3, <2>4, <2>5, <2>6
  <1> QED
    BY <1>1, PersisterInvariant, PTL

-----------------------------------------------------------------------------
(* The cache of configurations: who holds the lock is the thread that refreshes. *)

Refreshers == {"candle", "refresh"}

HolderRefreshes == \A t \in Refreshers : lock = t <=> fetch[t].pc # "none"

LoaderInv == LoaderTypeOK /\ HolderRefreshes

LEMMA LoaderInvariant == LoaderSpec => []LoaderInv
  <1>1. ASSUME LoaderInit PROVE LoaderInv
    <2>1. NoFetch \in [pc : {"none", "asked", "got"}, got : [Catalogue -> Modes]] /\ NoFetch.pc = "none"
      BY DEF NoFetch, NothingOn, Modes
    <2>2. remote \in [Catalogue -> Modes] /\ cache \in [Catalogue -> Modes]
      BY <1>1 DEF LoaderInit, NothingOn, Modes
    <2>3. LoaderTypeOK
      <3>1. fetch \in [Fetchers -> [pc : {"none", "asked", "got"}, got : [Catalogue -> Modes]]]
        BY <1>1, <2>1 DEF LoaderInit
      <3>2. edits \in 0 .. MaxEdits /\ outages \in 0 .. MaxOutages
        BY <1>1, LoaderAssumption DEF LoaderInit
      <3>3. fresh \in BOOLEAN /\ breakerOpen \in BOOLEAN /\ asking \in BOOLEAN /\ lock = "none"
        BY <1>1 DEF LoaderInit
      <3> QED
        BY <2>2, <3>1, <3>2, <3>3 DEF LoaderTypeOK
    <2>4. HolderRefreshes
      BY <1>1, <2>1 DEF LoaderInit, HolderRefreshes, Refreshers, Fetchers
    <2> QED
      BY <2>3, <2>4 DEF LoaderInv
  <1>2. ASSUME LoaderInv, [LoaderNext]_loaderVars PROVE LoaderInv'
    <2> USE DEF LoaderInv
    <2> DEFINE Fetches == [pc : {"none", "asked", "got"}, got : [Catalogue -> Modes]]
               Typed == fetch \in [Fetchers -> Fetches]
    <2>1. Typed /\ HolderRefreshes /\ NoFetch \in Fetches /\ [NoFetch EXCEPT !.pc = "asked"] \in Fetches
      BY <1>2 DEF LoaderTypeOK, NoFetch, NothingOn, Modes
    <2>2. ASSUME NEW t \in Fetchers, Forgets(t), Unlock(t) PROVE Typed' /\ HolderRefreshes'
      <3>1. Typed' /\ fetch' = [fetch EXCEPT ![t] = NoFetch] /\ NoFetch.pc = "none"
        BY <2>1, <2>2 DEF Forgets, NoFetch
      <3> QED
        BY <2>1, <2>2, <3>1 DEF Unlock, HolderRefreshes, Refreshers, Fetchers
    <2>3. ASSUME NEW t \in Refreshers, lock = "none", Asks(t), lock' = t PROVE Typed' /\ HolderRefreshes'
      <3>1. t \in Fetchers /\ [NoFetch EXCEPT !.pc = "asked"].pc = "asked"
        BY DEF Refreshers, Fetchers, NoFetch
      <3> QED
        BY <2>1, <2>3, <3>1 DEF Asks, HolderRefreshes, Refreshers, Fetchers
    <2>4. ASSUME NEW s \in Catalogue, NEW mode \in Modes, ConfigChanges(s, mode) PROVE LoaderInv'
      BY <1>2, <2>4, LoaderAssumption DEF ConfigChanges, LoaderTypeOK, HolderRefreshes
    <2>5. CASE CacheExpires \/ GetActiveStrategies
      BY <1>2, <2>5 DEF CacheExpires, GetActiveStrategies, LoaderTypeOK, HolderRefreshes
    <2>6. CASE CheckedUnderLock
      <3>1. Typed' /\ HolderRefreshes' /\ asking' \in BOOLEAN /\ lock' \in {"none", "candle", "refresh"}
        BY <1>2, <2>1, <2>3, <2>6 DEF CheckedUnderLock, LoaderTypeOK, HolderRefreshes, Refreshers
      <3> QED
        BY <1>2, <2>6, <3>1 DEF CheckedUnderLock, LoaderTypeOK
    <2>7. CASE KeepWarm
      <3>1. Typed' /\ HolderRefreshes'
        BY <2>3, <2>7 DEF KeepWarm, Refreshers
      <3> QED
        BY <1>2, <2>7, <3>1 DEF KeepWarm, LoaderTypeOK
    <2>8. ASSUME NEW t \in Fetchers, BreakerRefuses(t) \/ RefreshFails(t) PROVE LoaderInv'
      <3>1. Typed' /\ HolderRefreshes'
        BY <2>2, <2>8 DEF BreakerRefuses, RefreshFails
      <3>2. lock' \in {"none", "candle", "refresh"} /\ asking' \in BOOLEAN
        BY <1>2, <2>8 DEF BreakerRefuses, RefreshFails, Unlock, Returns, LoaderTypeOK
      <3>3. breakerOpen' \in BOOLEAN
        BY <1>2, <2>8 DEF BreakerRefuses, RefreshFails, LoaderTypeOK
      <3>4. outages' \in 0 .. MaxOutages
        <4>1. \/ outages' = outages
              \/ outages < MaxOutages /\ outages' = outages + 1
          BY <2>8 DEF BreakerRefuses, RefreshFails
        <4> QED
          BY <1>2, <4>1, LoaderAssumption DEF LoaderTypeOK
      <3> QED
        BY <1>2, <2>8, <3>1, <3>2, <3>3, <3>4 DEF BreakerRefuses, RefreshFails, LoaderTypeOK
    <2>9. ASSUME NEW t \in Fetchers, BackendAnswers(t) PROVE LoaderInv'
      <3>1. [pc |-> "got", got |-> remote] \in Fetches
        BY <1>2 DEF LoaderTypeOK
      <3>2. Typed'
        BY <2>1, <2>9, <3>1 DEF BackendAnswers
      <3>3. HolderRefreshes'
        BY <2>1, <2>9 DEF BackendAnswers, HolderRefreshes, Refreshers, Fetchers
      <3> QED
        BY <1>2, <2>9, <3>2, <3>3 DEF BackendAnswers, LoaderTypeOK
    <2>10. ASSUME NEW t \in Fetchers, Stores(t) PROVE LoaderInv'
      <3>1. Typed'
        BY <2>1, <2>10 DEF Stores
      <3>2. \A u \in Refreshers : fetch'[u] = IF u = t THEN NoFetch ELSE fetch[u]
        BY <2>10 DEF Stores, Refreshers, Fetchers
      <3>3. HolderRefreshes'
        BY <2>1, <2>10, <3>2 DEF Stores, Unlock, HolderRefreshes, Refreshers, NoFetch
      <3>4. fetch[t].got \in [Catalogue -> Modes]
        BY <2>1
      <3>5. /\ lock' \in {"none", "candle", "refresh"} /\ asking' \in BOOLEAN /\ breakerOpen' \in BOOLEAN
            /\ cache' \in [Catalogue -> Modes] /\ fresh' \in BOOLEAN
        BY <1>2, <2>10, <3>4 DEF Stores, Unlock, Returns, LoaderTypeOK
      <3> QED
        BY <1>2, <2>10, <3>1, <3>3, <3>5 DEF Stores, LoaderTypeOK
    <2>11. CASE UNCHANGED loaderVars
      BY <1>2, <2>11 DEF loaderVars, LoaderTypeOK, HolderRefreshes
    <2> QED
      BY <1>2, <2>4, <2>5, <2>6, <2>7, <2>8, <2>9, <2>10, <2>11 DEF LoaderNext
  <1> QED
    BY <1>1, <1>2, PTL DEF LoaderSpec

(* The candle thread and the keep-warm thread never refresh side by side, and the lock is     *)
(* held exactly as long as one of them does: whether the breaker refuses, the request fails,  *)
(* the backend answers or the cache was fresh by then, it is given back (_refresh_lock).      *)
RefreshesTakeTurns ==
    /\ ~(fetch["candle"].pc # "none" /\ fetch["refresh"].pc # "none")
    /\ lock # "none" <=> fetch["candle"].pc # "none" \/ fetch["refresh"].pc # "none"

THEOREM LockIsGivenBack == LoaderSpec => []RefreshesTakeTurns
  <1>1. LoaderInv => RefreshesTakeTurns
    BY DEF LoaderInv, LoaderTypeOK, HolderRefreshes, Refreshers, RefreshesTakeTurns
  <1> QED
    BY <1>1, LoaderInvariant, PTL

(* The types of the cache of configurations. *)
THEOREM LoaderTypeCorrect == LoaderSpec => []LoaderTypeOK
  BY LoaderInvariant, PTL DEF LoaderInv

-----------------------------------------------------------------------------
(* The types of the directory of algorithms, its watcher and its requests. *)

Versions == 0 .. MaxWrites
WatcherStates == [pc : {"asleep", "list", "new", "modified", "load", "reload"},
                  seen : SUBSET Files, todo : SUBSET Files, at : Files \cup {"none"},
                  mtime : Versions, got : Contents]
AlgCalls == [pc : {"none", "remove", "write", "import", "register", "ok", "bad"},
             alg : Algs \cup {"none"}, file : Files \cup {"none"}, put : Contents, got : Contents]
FileInHand == watcher.pc \in {"new", "modified", "load", "reload"}

AlgTypes ==
    /\ disk \in [Files -> Contents] /\ written \in Versions
    /\ registry \in [Algs -> Versions] /\ mtimes \in [Files -> Versions]
    /\ watcher \in WatcherStates /\ watcher.todo \subseteq watcher.seen
    /\ call \in [Clients -> AlgCalls] /\ calls \in 0 .. MaxCalls

AlgTargets ==
    /\ FileInHand => watcher.at \in Files
    /\ watcher.pc \in {"load", "reload"} => watcher.got.alg \in Algs
    /\ \A c \in Clients : /\ call[c].pc = "remove" => call[c].alg \in Algs
                          /\ call[c].pc \in {"write", "import", "register"} => call[c].file \in Files

LEMMA InitAlg == AlgInit => AlgTypes /\ AlgTargets
  <1> SUFFICES ASSUME AlgInit PROVE AlgTypes /\ AlgTargets
    OBVIOUS
  <1>1. 0 \in Versions /\ 1 \in Versions /\ 0 \in 0 .. MaxCalls
    BY WritesAssumption DEF Versions
  <1>2. Missing \in Contents /\ \A f \in Algs : [alg |-> f, ver |-> 1] \in Contents
    BY <1>1 DEF Missing, Contents, Versions
  <1>3. Asleep \in WatcherStates /\ Asleep.todo \subseteq Asleep.seen /\ Asleep.pc = "asleep"
    BY <1>1, <1>2 DEF Asleep, WatcherStates
  <1>4. NoCall \in AlgCalls /\ NoCall.pc = "none"
    BY <1>2 DEF NoCall, AlgCalls
  <1>5. PICK found \in SUBSET Algs :
          /\ disk = [f \in Files |-> IF f \in found THEN [alg |-> f, ver |-> 1] ELSE Missing]
          /\ registry = [a \in Algs |-> IF a \in found THEN 1 ELSE 0]
          /\ mtimes = [f \in Files |-> IF f \in found THEN 1 ELSE 0]
    BY DEF AlgInit
  <1>6. disk \in [Files -> Contents]
    BY <1>2, <1>5
  <1>7. registry \in [Algs -> Versions] /\ mtimes \in [Files -> Versions]
    BY <1>1, <1>5
  <1> QED
    BY <1>1, <1>3, <1>4, <1>6, <1>7 DEF AlgInit, AlgTypes, AlgTargets, FileInHand

LEMMA AlgTypesStep == AlgTypes /\ AlgTargets /\ [AlgNext]_algVars => AlgTypes' /\ AlgTargets'
  <1> SUFFICES ASSUME AlgTypes, AlgTargets, [AlgNext]_algVars PROVE AlgTypes' /\ AlgTargets'
    OBVIOUS
  <1> DEFINE Directory == /\ disk \in [Files -> Contents] /\ written \in Versions
                          /\ registry \in [Algs -> Versions] /\ mtimes \in [Files -> Versions]
             Watching == /\ watcher \in WatcherStates /\ watcher.todo \subseteq watcher.seen
                         /\ FileInHand => watcher.at \in Files
                         /\ watcher.pc \in {"load", "reload"} => watcher.got.alg \in Algs
             Serving == /\ call \in [Clients -> AlgCalls] /\ calls \in 0 .. MaxCalls
                        /\ \A c \in Clients :
                             /\ call[c].pc = "remove" => call[c].alg \in Algs
                             /\ call[c].pc \in {"write", "import", "register"} => call[c].file \in Files
  <1>1. Directory /\ Watching /\ Serving
    BY DEF AlgTypes, AlgTargets
  <1>2. SUFFICES Directory' /\ Watching' /\ Serving'
    BY DEF AlgTypes, AlgTargets
  <1>3. /\ Missing \in Contents /\ 0 \in Versions
        /\ \A a \in Algs \cup {"broken"} : \A v \in Versions : [alg |-> a, ver |-> v] \in Contents
    BY WritesAssumption DEF Missing, Contents, Versions
  <1>4. ASSUME UNCHANGED watcher PROVE Watching'
    BY <1>1, <1>4 DEF FileInHand
  <1>5. ASSUME UNCHANGED <<call, calls>> PROVE Serving'
    BY <1>1, <1>5
  <1>6. ASSUME UNCHANGED <<disk, written, registry, mtimes>> PROVE Directory'
    BY <1>1, <1>6
  <1>7. ASSUME written < MaxWrites, written' = written + 1 PROVE written' \in Versions
    BY <1>1, <1>7, WritesAssumption DEF Versions
  <1>8. \A f \in Files : disk[f] \in Contents /\ disk[f].ver \in Versions /\ Recorded(f) \in [Files -> Versions]
    BY <1>1 DEF Contents, Recorded, Versions
  <1>9. ASSUME NEW w, w.pc \in {"asleep", "list"}, w \in WatcherStates, w.todo \subseteq w.seen, watcher' = w
        PROVE  Watching'
    BY <1>9 DEF FileInHand
  <1>10. Asleep \in WatcherStates /\ Asleep.pc = "asleep" /\ Asleep.todo \subseteq Asleep.seen
    BY <1>3 DEF Asleep, WatcherStates
  <1>11. /\ ToNext(watcher) \in WatcherStates /\ ToNext(watcher).pc = "list"
         /\ ToNext(watcher).todo \subseteq ToNext(watcher).seen
    BY <1>1, <1>3 DEF ToNext, WatcherStates
  <1>12. ASSUME NEW f \in Files, Edit(f) PROVE Directory' /\ Watching' /\ Serving'
    <2>1. written' \in Versions
      BY <1>7, <1>12 DEF Edit
    <2>2. \A content \in {[alg |-> f, ver |-> written'], Broken(written')} : content \in Contents
      BY <1>3, <1>12, <2>1 DEF Edit, Broken
    <2>3. disk' \in [Files -> Contents]
      BY <1>1, <1>12, <2>2 DEF Edit
    <2> QED
      BY <1>1, <1>4, <1>5, <1>12, <2>1, <2>3 DEF Edit
  <1>13. CASE StartPass
    <2> DEFINE pass == [Asleep EXCEPT !.pc = "list", !.seen = Present, !.todo = Present]
    <2>1. pass \in WatcherStates /\ pass.pc = "list" /\ pass.todo \subseteq pass.seen
      BY <1>3, <1>10 DEF Asleep, WatcherStates, Present
    <2>2. watcher' = pass /\ UNCHANGED <<disk, written, registry, mtimes, call, calls>>
      BY <1>13 DEF StartPass
    <2> HIDE DEF pass
    <2> QED
      BY <1>5, <1>6, <1>9, <2>1, <2>2
  <1>14. ASSUME NEW f \in Files, LookAt(f) PROVE Directory' /\ Watching' /\ Serving'
    <2> DEFINE rest == [watcher EXCEPT !.todo = @ \ {f}]
               taken(p) == [rest EXCEPT !.pc = p, !.at = f, !.mtime = disk[f].ver]
    <2>1. rest \in WatcherStates /\ rest.pc = "list" /\ rest.todo \subseteq rest.seen
      BY <1>1, <1>14 DEF LookAt, WatcherStates
    <2>2. ASSUME NEW p \in {"new", "modified"}
          PROVE  /\ taken(p) \in WatcherStates /\ taken(p).pc = p /\ taken(p).at = f
                 /\ taken(p).todo \subseteq taken(p).seen
      BY <1>8, <2>1 DEF WatcherStates
    <2>3. \/ watcher' = Asleep \/ watcher' = rest
          \/ \E p \in {"new", "modified"} : watcher' = taken(p)
      <3>1. disk[f].ver \in Nat /\ mtimes[f] \in Nat
        BY <1>1, <1>8, WritesAssumption DEF Versions
      <3>2. CASE disk[f].ver = 0
        BY <1>14, <3>1, <3>2 DEF LookAt
      <3>3. CASE disk[f].ver # 0 /\ disk[f].ver > mtimes[f]
        <4>1. watcher' = taken(IF mtimes[f] = 0 THEN "new" ELSE "modified")
          BY <1>14, <3>1, <3>3 DEF LookAt
        <4> QED
          BY <4>1
      <3>4. CASE disk[f].ver # 0 /\ ~(disk[f].ver > mtimes[f])
        BY <1>14, <3>1, <3>4 DEF LookAt
      <3> QED
        BY <3>2, <3>3, <3>4
    <2> HIDE DEF taken, rest
    <2>4. Watching'
      <3>1. CASE watcher' = Asleep \/ watcher' = rest
        BY <1>9, <1>10, <2>1, <3>1
      <3>2. ASSUME NEW p \in {"new", "modified"}, watcher' = taken(p) PROVE Watching'
        BY <2>2, <3>2 DEF FileInHand
      <3> QED
        BY <2>3, <3>1, <3>2
    <2> QED
      BY <1>5, <1>6, <1>14, <2>4 DEF LookAt
  <1>15. CASE WatcherImports
    <2> DEFINE content == disk[watcher.at]
               loading(p) == [watcher EXCEPT !.pc = p, !.got = content]
    <2>1. watcher.at \in Files /\ content \in Contents /\ watcher.mtime \in Versions
      BY <1>1, <1>8, <1>15 DEF WatcherImports, FileInHand, WatcherStates
    <2>2. CASE Loads(content)
      <3>1. \E p \in {"load", "reload"} : watcher' = loading(p)
        BY <1>15, <2>2 DEF WatcherImports
      <3>2. ASSUME NEW p \in {"load", "reload"}
            PROVE  /\ loading(p) \in WatcherStates /\ loading(p).pc = p /\ loading(p).at = watcher.at
                   /\ loading(p).got = content /\ loading(p).todo \subseteq loading(p).seen
        BY <1>1, <2>1 DEF WatcherStates
      <3> HIDE DEF loading
      <3>3. Watching'
        BY <2>1, <2>2, <3>1, <3>2 DEF FileInHand, Loads
      <3>4. UNCHANGED <<disk, written, registry, mtimes, call, calls>>
        BY <1>15, <2>2 DEF WatcherImports
      <3> QED
        BY <1>5, <1>6, <3>3, <3>4
    <2>3. CASE ~Loads(content)
      <3>1. /\ watcher' = ToNext(watcher) /\ UNCHANGED <<disk, written, registry, call, calls>>
            /\ mtimes' = mtimes \/ mtimes' = [mtimes EXCEPT ![watcher.at] = watcher.mtime]
        BY <1>15, <2>3 DEF WatcherImports
      <3>2. mtimes' \in [Files -> Versions]
        BY <1>1, <2>1, <3>1
      <3> QED
        BY <1>1, <1>5, <1>9, <1>11, <3>1, <3>2
    <2> QED
      BY <2>2, <2>3
  <1>16. ASSUME NEW content \in Contents, content.alg \in Algs, Register(content)
         PROVE  registry' \in [Algs -> Versions]
    BY <1>1, <1>16 DEF Register, Contents, Versions
  <1>17. CASE WatcherLoads
    <2>1. watcher.at \in Files /\ watcher.mtime \in Versions /\ watcher.got \in Contents /\ watcher.got.alg \in Algs
      BY <1>1, <1>17 DEF WatcherLoads, FileInHand, WatcherStates
    <2>2. registry' \in [Algs -> Versions]
      BY <1>16, <1>17, <2>1 DEF WatcherLoads
    <2>3. mtimes' \in [Files -> Versions]
      BY <1>1, <1>8, <1>17, <2>1 DEF WatcherLoads
    <2> QED
      BY <1>1, <1>5, <1>9, <1>11, <1>17, <2>2, <2>3 DEF WatcherLoads
  <1>18. CASE WatcherReloads
    <2>1. watcher.at \in Files /\ watcher.mtime \in Versions /\ watcher.got.ver \in Versions
      BY <1>1, <1>18 DEF WatcherReloads, FileInHand, WatcherStates, Contents, Versions
    <2>2. registry' \in [Algs -> Versions] /\ mtimes' \in [Files -> Versions]
      BY <1>1, <1>18, <2>1 DEF WatcherReloads, SeenAs
    <2> QED
      BY <1>1, <1>5, <1>9, <1>11, <1>18, <2>2 DEF WatcherReloads
  <1>19. CASE EndPass
    <2>1. mtimes' \in [Files -> Versions]
      BY <1>1, <1>3, <1>19 DEF EndPass
    <2> QED
      BY <1>1, <1>5, <1>9, <1>10, <1>19, <2>1 DEF EndPass
  <1>20. ASSUME NEW c \in Clients, NEW request \in AlgCalls, Begin(c, request),
                request.pc = "remove" => request.alg \in Algs,
                request.pc = "write" => request.file \in Files,
                request.pc \in {"remove", "write"}
         PROVE  Serving'
    <2>1. calls' \in 0 .. MaxCalls
      BY <1>1, <1>20, WritesAssumption DEF Begin
    <2>2. call' = [call EXCEPT ![c] = request]
      BY <1>20 DEF Begin
    <2> QED
      BY <1>1, <1>20, <2>1, <2>2
  <1>21. ASSUME NEW c \in Clients, NEW f \in Files, NEW a \in Algs \cup {"broken"}, Upload(c, f, a)
         PROVE  Directory' /\ Watching' /\ Serving'
    <2> DEFINE request == [NoCall EXCEPT !.pc = "write", !.file = f, !.put = [alg |-> a, ver |-> 0]]
    <2>1. request \in AlgCalls /\ request.pc = "write" /\ request.file = f
      BY <1>3 DEF NoCall, AlgCalls
    <2>2. Begin(c, request)
      BY <1>21 DEF Upload
    <2> HIDE DEF request
    <2> QED
      BY <1>4, <1>6, <1>20, <1>21, <2>1, <2>2 DEF Upload
  <1>22. \A a \in Algs : FileFor(a) \in Files
    BY AlgorithmsAssumption DEF FileFor, FilesOf
  <1>23. ASSUME NEW c \in Clients, NEW a \in Algs, NEW b \in Algs \cup {"broken"}, Replace(c, a, b)
         PROVE  Directory' /\ Watching' /\ Serving'
    <2> DEFINE request == [NoCall EXCEPT !.pc = "remove", !.alg = a, !.file = FileFor(a),
                                         !.put = [alg |-> b, ver |-> 0]]
    <2>1. request \in AlgCalls /\ request.pc = "remove" /\ request.alg = a
      BY <1>3, <1>22 DEF NoCall, AlgCalls
    <2>2. Begin(c, request)
      BY <1>23 DEF Replace
    <2> HIDE DEF request
    <2> QED
      BY <1>4, <1>6, <1>20, <1>23, <2>1, <2>2 DEF Replace
  <1>24. ASSUME NEW c \in Clients, NEW a \in Algs, Delete(c, a) PROVE Directory' /\ Watching' /\ Serving'
    <2> DEFINE request == [NoCall EXCEPT !.pc = "remove", !.alg = a]
    <2>1. request \in AlgCalls /\ request.pc = "remove" /\ request.alg = a
      BY <1>3 DEF NoCall, AlgCalls
    <2>2. Begin(c, request)
      BY <1>24 DEF Delete
    <2> HIDE DEF request
    <2> QED
      BY <1>4, <1>6, <1>20, <1>24, <2>1, <2>2 DEF Delete
  <1>25. ASSUME NEW c \in Clients, Remove(c) PROVE Directory' /\ Watching' /\ Serving'
    <2>1. call[c].alg \in Algs /\ call[c].pc = "remove" /\ call[c] \in AlgCalls
      BY <1>1, <1>25 DEF Remove
    <2>2. /\ disk' \in [Files -> Contents] /\ mtimes' \in [Files -> Versions]
          /\ registry' \in [Algs -> Versions]
      BY <1>1, <1>3, <1>25, <2>1 DEF Remove
    <2>3. \E p \in {"write", "ok", "bad"} :
             call' = [call EXCEPT ![c].pc = p] /\ (p = "write" => call[c].file \in Files)
      <3> DEFINE next == CASE call[c].file # "none" -> "write"
                           [] call[c].alg \in Registered -> "ok"
                           [] OTHER -> "bad"
      <3>1. call' = [call EXCEPT ![c].pc = next]
        BY <1>25, Zenon DEF Remove
      <3>2. next = "write" => call[c].file # "none"
        OBVIOUS
      <3>3. next \in {"write", "ok", "bad"}
        OBVIOUS
      <3> HIDE DEF next
      <3>4. next = "write" => call[c].file \in Files
        BY <2>1, <3>2 DEF AlgCalls
      <3> QED
        BY <3>1, <3>3, <3>4
    <2>4. Serving'
      <3>1. PICK p \in {"write", "ok", "bad"} :
               call' = [call EXCEPT ![c].pc = p] /\ (p = "write" => call[c].file \in Files)
        BY <2>3
      <3>2. call' = [call EXCEPT ![c] = [call[c] EXCEPT !.pc = p]]
        BY <3>1, Zenon
      <3>3. [call[c] EXCEPT !.pc = p] \in AlgCalls /\ [call[c] EXCEPT !.pc = p].pc = p
            /\ [call[c] EXCEPT !.pc = p].file = call[c].file
        BY <2>1 DEF AlgCalls
      <3> QED
        BY <1>1, <1>25, <3>1, <3>2, <3>3 DEF Remove
    <2> QED
      BY <1>1, <1>4, <1>25, <2>2, <2>4 DEF Remove
  <1>26. ASSUME NEW c \in Clients, Write(c) PROVE Directory' /\ Watching' /\ Serving'
    <2>1. call[c].file \in Files /\ call[c].pc = "write" /\ call[c] \in AlgCalls /\ written' \in Versions
      BY <1>1, <1>7, <1>26 DEF Write
    <2>2. [call[c].put EXCEPT !.ver = written'] \in Contents
      BY <2>1 DEF AlgCalls, Contents, Versions
    <2>3. disk' \in [Files -> Contents]
      BY <1>1, <1>26, <2>1, <2>2 DEF Write
    <2>4. call' = [call EXCEPT ![c] = [call[c] EXCEPT !.pc = "import",
                                                     !.put = [call[c].put EXCEPT !.ver = written']]]
      BY <1>26 DEF Write
    <2>5. [call[c] EXCEPT !.pc = "import", !.put = [call[c].put EXCEPT !.ver = written']] \in AlgCalls
      BY <2>1, <2>2 DEF AlgCalls
    <2>6. [call[c] EXCEPT !.pc = "import", !.put = [call[c].put EXCEPT !.ver = written']].pc = "import"
          /\ [call[c] EXCEPT !.pc = "import", !.put = [call[c].put EXCEPT !.ver = written']].file = call[c].file
      BY <2>1 DEF AlgCalls
    <2>7. Serving'
      BY <1>1, <1>26, <2>1, <2>4, <2>5, <2>6 DEF Write
    <2> QED
      BY <1>1, <1>4, <1>26, <2>1, <2>3, <2>7 DEF Write
  <1>27. ASSUME NEW c \in Clients, Import(c) PROVE Directory' /\ Watching' /\ Serving'
    <2>1. call[c].file \in Files /\ call[c] \in AlgCalls /\ disk[call[c].file] \in Contents
      BY <1>1, <1>8, <1>27 DEF Import
    <2>2. call' = [call EXCEPT ![c] = [call[c] EXCEPT !.pc = "register", !.got = disk[call[c].file]]]
      BY <1>27, Zenon DEF Import
    <2>3. /\ [call[c] EXCEPT !.pc = "register", !.got = disk[call[c].file]] \in AlgCalls
          /\ [call[c] EXCEPT !.pc = "register", !.got = disk[call[c].file]].pc = "register"
          /\ [call[c] EXCEPT !.pc = "register", !.got = disk[call[c].file]].file = call[c].file
      BY <2>1 DEF AlgCalls
    <2> QED
      BY <1>1, <1>4, <1>6, <1>27, <2>1, <2>2, <2>3 DEF Import
  <1>28. ASSUME NEW c \in Clients, Answer(c) PROVE Directory' /\ Watching' /\ Serving'
    <2>1. call[c].file \in Files /\ call[c] \in AlgCalls /\ call[c].got \in Contents
      BY <1>1, <1>28 DEF Answer, AlgCalls
    <2>2. \E p \in {"ok", "bad"} : call' = [call EXCEPT ![c].pc = p]
      BY <1>28 DEF Answer
    <2>3. Serving'
      <3>1. PICK p \in {"ok", "bad"} : call' = [call EXCEPT ![c].pc = p]
        BY <2>2
      <3>2. call' = [call EXCEPT ![c] = [call[c] EXCEPT !.pc = p]]
        BY <3>1, Zenon
      <3>3. [call[c] EXCEPT !.pc = p] \in AlgCalls /\ [call[c] EXCEPT !.pc = p].pc = p
        BY <2>1 DEF AlgCalls
      <3> QED
        BY <1>1, <1>28, <3>2, <3>3 DEF Answer
    <2>4. disk' \in [Files -> Contents]
      BY <1>1, <1>3, <1>28, <2>1 DEF Answer
    <2>5. mtimes' \in [Files -> Versions]
      BY <1>1, <1>8, <1>28, <2>1 DEF Answer
    <2>6. registry' \in [Algs -> Versions]
      BY <1>1, <1>16, <1>28, <2>1 DEF Answer, Loads
    <2> QED
      BY <1>1, <1>4, <1>28, <2>3, <2>4, <2>5, <2>6 DEF Answer
  <1>29. CASE UNCHANGED algVars
    BY <1>4, <1>5, <1>6, <1>29 DEF algVars
  <1>30. watcher.todo \subseteq Files
    BY <1>1 DEF WatcherStates
  <1> QED
    BY <1>12, <1>13, <1>14, <1>15, <1>17, <1>18, <1>19, <1>21, <1>23, <1>24, <1>25, <1>26, <1>27,
       <1>28, <1>29, <1>30 DEF AlgNext, Watcher, Client


LEMMA AlgTypesHold == AlgSpec => [](AlgTypes /\ AlgTargets)
  BY InitAlg, AlgTypesStep, PTL DEF AlgSpec

(* The types of the registry of algorithms, its directory, its watcher and its routes. *)
THEOREM AlgorithmsTypeCorrect == AlgSpec => []AlgTypes
  BY AlgTypesHold, PTL

(* Where only editors change the directory: no route is used, a file has the algorithm of its *)
(* name, a time on record is not newer than the file, and an algorithm is registered as long  *)
(* as the time of its file is on record.  A file the watcher has in hand is newer than that   *)
(* time, and what it has read of it at least as new as the time it has seen.                  *)
OwnDirectory ==
    /\ \A c \in Clients : call[c].pc = "none"
    /\ \A f \in Files : disk[f].ver # 0 => f \in Algs
    /\ \A f \in Files : disk[f].alg \in {f, "broken", "none"} /\ mtimes[f] <= disk[f].ver /\ disk[f].ver <= written
    /\ \A a \in Algs : mtimes[a] # 0 <=> registry[a] # 0

SeenIsNewer ==
    /\ FileInHand => /\ watcher.at \in Algs /\ watcher.at \in watcher.seen
                     /\ mtimes[watcher.at] < watcher.mtime /\ watcher.mtime <= disk[watcher.at].ver
                     /\ watcher.pc \in {"new", "load"} <=> mtimes[watcher.at] = 0
    /\ watcher.pc \in {"load", "reload"} => /\ watcher.got.alg = watcher.at
                                            /\ watcher.mtime <= watcher.got.ver
                                            /\ watcher.got.ver <= disk[watcher.at].ver
    /\ watcher.pc # "asleep" => \A f \in Files : mtimes[f] # 0 => f \in watcher.seen

(* As long as only editors change the directory: what is registered in another version than   *)
(* the file has is a file whose time is newer than the one on record, so that the watcher's   *)
(* next pass finds it.  This is what RegistryFollowsFiles rests on; a reload that recorded    *)
(* the time of the file as it is by then would hide a write (_check_for_changes).             *)
EditsAreSeen ==
    \A a \in Algs : disk[a].alg = a /\ registry[a] # disk[a].ver => mtimes[a] < disk[a].ver

EditorInv == by = {"editor"} => OwnDirectory /\ SeenIsNewer /\ EditsAreSeen

LEMMA InitEditor == AlgInit => EditorInv
  <1> SUFFICES ASSUME AlgInit PROVE OwnDirectory /\ SeenIsNewer /\ EditsAreSeen
    BY DEF EditorInv
  <1>1. PICK found \in SUBSET Algs :
          /\ disk = [f \in Files |-> IF f \in found THEN [alg |-> f, ver |-> 1] ELSE Missing]
          /\ registry = [a \in Algs |-> IF a \in found THEN 1 ELSE 0]
          /\ mtimes = [f \in Files |-> IF f \in found THEN 1 ELSE 0]
    BY DEF AlgInit
  <1>2. \A f \in Files : \/ f \in found /\ disk[f].alg = f /\ disk[f].ver = 1 /\ mtimes[f] = 1
                         \/ f \notin found /\ disk[f].alg = "none" /\ disk[f].ver = 0 /\ mtimes[f] = 0
    BY <1>1 DEF Missing
  <1>3. \A a \in Algs : a \in Files /\ registry[a] = mtimes[a]
    BY <1>1, AlgorithmsAssumption
  <1>4. OwnDirectory
    BY <1>2, <1>3 DEF AlgInit, NoCall, OwnDirectory
  <1>5. EditsAreSeen
    BY <1>2, <1>3, AlgorithmsAssumption DEF EditsAreSeen
  <1> QED
    BY <1>4, <1>5 DEF AlgInit, Asleep, SeenIsNewer, FileInHand

LEMMA EditorStep == AlgTypes /\ AlgTargets /\ EditorInv /\ [AlgNext]_algVars => EditorInv'
  <1> SUFFICES ASSUME AlgTypes, AlgTargets, EditorInv, [AlgNext]_algVars PROVE EditorInv'
    OBVIOUS
  <1>0. by' = by
    <2>1. CASE Watcher
      BY <2>1 DEF Watcher, StartPass, LookAt, WatcherImports, WatcherLoads, WatcherReloads, EndPass
    <2>2. ASSUME NEW c \in Clients, Client(c) PROVE by' = by
      BY <2>2 DEF Client, Remove, Write, Import, Answer
    <2>3. ASSUME NEW c \in Clients, NEW f \in Files, NEW a \in Algs \cup {"broken"}, Upload(c, f, a) PROVE by' = by
      BY <2>3 DEF Upload
    <2>4. ASSUME NEW c \in Clients, NEW a \in Algs, NEW b \in Algs \cup {"broken"}, Replace(c, a, b) PROVE by' = by
      BY <2>4 DEF Replace
    <2>5. ASSUME NEW c \in Clients, NEW a \in Algs, Delete(c, a) PROVE by' = by
      BY <2>5 DEF Delete
    <2>6. ASSUME NEW f \in Files, Edit(f) PROVE by' = by
      BY <2>6 DEF Edit
    <2>7. CASE UNCHANGED algVars
      BY <2>7 DEF algVars
    <2> QED
      BY <2>1, <2>2, <2>3, <2>4, <2>5, <2>6, <2>7 DEF AlgNext
  <1> SUFFICES ASSUME OwnDirectory, SeenIsNewer, EditsAreSeen, by = {"editor"}
               PROVE  OwnDirectory' /\ SeenIsNewer' /\ EditsAreSeen'
    BY <1>0 DEF EditorInv
  <1>1. /\ \A f \in Files : disk[f].ver \in Nat /\ mtimes[f] \in Nat /\ disk[f] \in Contents
        /\ \A a \in Algs : registry[a] \in Nat /\ a \in Files
        /\ written \in Nat /\ watcher \in WatcherStates
        /\ watcher.mtime \in Nat /\ watcher.got.ver \in Nat /\ watcher.got.alg \in Algs \cup {"broken", "none"}
    BY AlgorithmsAssumption, WritesAssumption DEF AlgTypes, Contents, Versions, WatcherStates
  <1>2. "broken" \notin Algs /\ "none" \notin Algs /\ \A a \in Registered : registry[a] # 0
    BY AlgorithmsAssumption DEF Registered
  <1>3. ASSUME NEW f \in Files, Edit(f) PROVE OwnDirectory' /\ SeenIsNewer' /\ EditsAreSeen'
    <2>1. /\ f \in Algs /\ written' = written + 1 /\ UNCHANGED <<registry, mtimes, watcher, call>>
          /\ \A g \in Files : g # f => disk'[g] = disk[g]
          /\ disk'[f].alg \in {f, "broken"} /\ disk'[f].ver = written'
      BY <1>3 DEF Edit, Broken, AlgTypes
    <2>2. /\ written' > written
          /\ \A g \in Files : disk[g].ver <= disk'[g].ver /\ (g = f => mtimes[g] < disk'[g].ver)
      BY <1>1, <2>1 DEF OwnDirectory
    <2>3. OwnDirectory'
      BY <1>1, <2>1, <2>2 DEF OwnDirectory
    <2>4. SeenIsNewer'
      <3>1. watcher'.at \in Files => disk[watcher.at].ver <= disk'[watcher.at].ver /\ disk'[watcher.at].ver \in Nat
        BY <1>1, <2>1, <2>2
      <3> QED
        BY <1>1, <2>1, <3>1, AlgorithmsAssumption DEF SeenIsNewer, FileInHand
    <2>5. EditsAreSeen'
      BY <1>1, <2>1, <2>2 DEF EditsAreSeen
    <2> QED
      BY <2>3, <2>4, <2>5
  <1>4. ASSUME UNCHANGED <<disk, written, registry, mtimes, call>> PROVE OwnDirectory' /\ EditsAreSeen'
    BY <1>4 DEF OwnDirectory, EditsAreSeen
  <1>5. CASE StartPass
    <2>1. watcher'.pc = "list" /\ watcher'.seen = Present
      BY <1>5 DEF StartPass, Asleep
    <2>2. \A f \in Files : mtimes[f] # 0 => f \in Present
      BY <1>1 DEF OwnDirectory, Present, Missing
    <2>3. SeenIsNewer'
      BY <1>5, <2>1, <2>2 DEF SeenIsNewer, FileInHand, StartPass
    <2> QED
      BY <1>4, <1>5, <2>3 DEF StartPass
  <1>6. ASSUME NEW f \in watcher.todo, LookAt(f) PROVE OwnDirectory' /\ SeenIsNewer' /\ EditsAreSeen'
    <2> DEFINE m == disk[f].ver
    <2>1. f \in Files /\ f \in watcher.seen /\ watcher.pc = "list" /\ UNCHANGED <<disk, written, registry, mtimes, call>>
      BY <1>6 DEF LookAt, AlgTypes, WatcherStates
    <2>2. CASE m = 0
      <3>1. watcher' = Asleep
        BY <1>1, <1>6, <2>1, <2>2 DEF LookAt
      <3> QED
        BY <1>4, <2>1, <3>1 DEF SeenIsNewer, FileInHand, Asleep
    <2>3. CASE m # 0 /\ m > mtimes[f]
      <3>1. /\ watcher'.pc = IF mtimes[f] = 0 THEN "new" ELSE "modified"
            /\ watcher'.at = f /\ watcher'.mtime = m /\ watcher'.seen = watcher.seen
        BY <1>1, <1>6, <2>1, <2>3 DEF LookAt, WatcherStates
      <3>2. f \in Algs /\ \A g \in Files : mtimes[g] # 0 => g \in watcher.seen
        BY <2>1, <2>3 DEF OwnDirectory, SeenIsNewer
      <3>3. SeenIsNewer'
        BY <1>1, <2>1, <2>3, <3>1, <3>2 DEF SeenIsNewer, FileInHand
      <3> QED
        BY <1>4, <2>1, <3>3
    <2>4. CASE m # 0 /\ ~(m > mtimes[f])
      <3>1. watcher' = [watcher EXCEPT !.todo = @ \ {f}]
        BY <1>1, <1>6, <2>1, <2>4 DEF LookAt
      <3>2. watcher'.pc = "list" /\ watcher'.seen = watcher.seen
        BY <1>1, <2>1, <3>1 DEF WatcherStates
      <3>3. SeenIsNewer'
        BY <2>1, <3>2 DEF SeenIsNewer, FileInHand
      <3> QED
        BY <1>4, <2>1, <3>3
    <2> QED
      BY <2>2, <2>3, <2>4
  <1>7. ASSUME watcher' = ToNext(watcher), mtimes' \in [Files -> Versions],
               \A f \in Files : mtimes'[f] # 0 => f \in watcher.seen
        PROVE  SeenIsNewer'
    <2>1. watcher'.pc = "list" /\ watcher'.seen = watcher.seen
      BY <1>1, <1>7 DEF ToNext, WatcherStates
    <2> QED
      BY <1>7, <2>1 DEF SeenIsNewer, FileInHand
  <1>8. ASSUME FileInHand
        PROVE  /\ watcher.at \in Algs /\ watcher.at \in Files /\ watcher.at \in watcher.seen
               /\ mtimes[watcher.at] < watcher.mtime /\ watcher.mtime <= disk[watcher.at].ver
               /\ watcher.mtime \in Versions /\ \A f \in Files : mtimes[f] # 0 => f \in watcher.seen
    BY <1>1, <1>8 DEF SeenIsNewer, FileInHand, WatcherStates
  <1>9. ASSUME FileInHand, mtimes' = [mtimes EXCEPT ![watcher.at] = watcher.mtime]
        PROVE  /\ mtimes' \in [Files -> Versions]
               /\ \A f \in Files : f # watcher.at => mtimes'[f] = mtimes[f]
               /\ mtimes'[watcher.at] = watcher.mtime /\ watcher.mtime # 0
               /\ \A f \in Files : mtimes'[f] # 0 => f \in watcher.seen
    <2>1. mtimes \in [Files -> Versions]
      BY DEF AlgTypes
    <2> QED
      BY <1>1, <1>8, <1>9, <2>1
  <1>10. CASE WatcherImports
    <2> DEFINE a == watcher.at
    <2>1. FileInHand /\ UNCHANGED <<disk, written, registry, call>>
      BY <1>10 DEF WatcherImports, FileInHand
    <2>2. a \in Algs /\ a \in Files /\ mtimes[a] < watcher.mtime /\ watcher.mtime <= disk[a].ver
      BY <1>8, <2>1
    <2>3. CASE Loads(disk[a])
      <3>1. /\ mtimes' = mtimes /\ watcher'.got = disk[a] /\ watcher'.at = a
            /\ watcher'.seen = watcher.seen /\ watcher'.mtime = watcher.mtime
            /\ watcher'.pc = IF watcher.pc = "modified" THEN "reload" ELSE "load"
        BY <1>1, <1>10, <2>3 DEF WatcherImports, WatcherStates
      <3>2. disk[a].alg = a
        BY <1>2, <2>2, <2>3 DEF Loads, OwnDirectory
      <3>3. watcher'.pc = "load" <=> mtimes[a] = 0
        BY <1>10, <2>1, <3>1 DEF WatcherImports, SeenIsNewer
      <3>4. \A f \in Files : mtimes[f] # 0 => f \in watcher.seen
        BY <1>8, <2>1
      <3>5. a \in watcher.seen
        BY <1>8, <2>1
      <3>6. watcher'.pc \in {"load", "reload"}
        BY <3>1
      <3>7. SeenIsNewer'
        BY <1>1, <2>1, <2>2, <3>1, <3>2, <3>3, <3>4, <3>5, <3>6 DEF SeenIsNewer, FileInHand
      <3> QED
        BY <1>4, <2>1, <3>1, <3>7
    <2>4. CASE ~Loads(disk[a]) /\ watcher.pc = "modified"
      <3>1. watcher' = ToNext(watcher) /\ mtimes' = [mtimes EXCEPT ![a] = watcher.mtime]
        BY <1>10, <2>4 DEF WatcherImports
      <3>2. /\ mtimes' \in [Files -> Versions] /\ \A f \in Files : f # a => mtimes'[f] = mtimes[f]
            /\ mtimes'[a] = watcher.mtime /\ watcher.mtime # 0
            /\ \A f \in Files : mtimes'[f] # 0 => f \in watcher.seen
        BY <1>9, <2>1, <3>1
      <3>3. mtimes[a] # 0
        BY <2>1, <2>4 DEF SeenIsNewer
      <3>4. OwnDirectory'
        BY <1>1, <2>1, <2>2, <3>2, <3>3 DEF OwnDirectory
      <3>5. EditsAreSeen'
        <4>1. disk[a].alg # a
          BY <2>2, <2>4 DEF Loads
        <4> QED
          BY <1>1, <2>1, <3>2, <4>1 DEF EditsAreSeen
      <3> QED
        BY <1>7, <3>1, <3>2, <3>4, <3>5
    <2>5. CASE ~Loads(disk[a]) /\ watcher.pc # "modified"
      <3>1. watcher' = ToNext(watcher) /\ mtimes' = mtimes
        BY <1>10, <2>5 DEF WatcherImports
      <3> QED
        BY <1>4, <1>7, <1>8, <2>1, <3>1 DEF AlgTypes
    <2> QED
      BY <2>3, <2>4, <2>5
  <1>11. ASSUME FileInHand, watcher.pc \in {"load", "reload"},
                watcher' = ToNext(watcher), UNCHANGED <<disk, written, call>>,
                mtimes' = [mtimes EXCEPT ![watcher.at] = watcher.mtime],
                registry' = [registry EXCEPT ![watcher.at] = watcher.got.ver]
         PROVE  OwnDirectory' /\ SeenIsNewer' /\ EditsAreSeen'
    <2> DEFINE a == watcher.at
    <2>1. /\ mtimes' \in [Files -> Versions] /\ \A f \in Files : f # a => mtimes'[f] = mtimes[f]
          /\ mtimes'[a] = watcher.mtime /\ watcher.mtime # 0
          /\ \A f \in Files : mtimes'[f] # 0 => f \in watcher.seen
      BY <1>9, <1>11
    <2>2. a \in Algs /\ a \in Files /\ watcher.mtime <= disk[a].ver
      BY <1>8, <1>11
    <2>3. watcher.mtime <= watcher.got.ver /\ watcher.got.ver <= disk[a].ver
      BY <1>11 DEF SeenIsNewer
    <2>4. registry'[a] = watcher.got.ver /\ \A b \in Algs : b # a => registry'[b] = registry[b]
      BY <1>11, <2>2 DEF AlgTypes
    <2>5. OwnDirectory'
      <3>1. watcher.got.ver # 0
        BY <1>1, <2>1, <2>3
      <3> QED
        BY <1>1, <1>11, <2>1, <2>2, <2>4, <3>1 DEF OwnDirectory
    <2>6. EditsAreSeen'
      BY <1>1, <1>11, <2>1, <2>2, <2>3, <2>4 DEF EditsAreSeen
    <2> QED
      BY <1>7, <1>11, <2>1, <2>5, <2>6
  <1>12. CASE WatcherLoads
    <2> DEFINE a == watcher.at
    <2>1. FileInHand /\ watcher.pc = "load" /\ watcher' = ToNext(watcher) /\ UNCHANGED <<disk, written, call>>
      BY <1>12 DEF WatcherLoads, FileInHand
    <2>2. watcher.got.alg = a /\ mtimes[a] = 0 /\ a \in Algs
      BY <2>1 DEF SeenIsNewer
    <2>3. a \notin Registered /\ disk[a] # Missing
      <3>1. registry[a] = 0
        BY <2>2 DEF OwnDirectory
      <3>2. disk[a].ver # 0
        BY <1>1, <1>8, <2>1
      <3> QED
        BY <1>2, <3>1, <3>2 DEF Missing
    <2>4. mtimes' = [mtimes EXCEPT ![a] = watcher.mtime] /\ registry' = [registry EXCEPT ![a] = watcher.got.ver]
      BY <1>12, <2>2, <2>3 DEF WatcherLoads, Register
    <2> QED
      BY <1>11, <2>1, <2>4
  <1>13. CASE WatcherReloads
    <2>1. FileInHand /\ watcher.pc = "reload" /\ watcher' = ToNext(watcher) /\ UNCHANGED <<disk, written, call>>
      BY <1>13 DEF WatcherReloads, FileInHand
    <2>2. watcher.got.alg = watcher.at
      BY <2>1 DEF SeenIsNewer
    <2>3. /\ mtimes' = [mtimes EXCEPT ![watcher.at] = watcher.mtime]
          /\ registry' = [registry EXCEPT ![watcher.at] = watcher.got.ver]
      BY <1>13, <2>2 DEF WatcherReloads, SeenAs
    <2> QED
      BY <1>11, <2>1, <2>3
  <1>14. CASE EndPass
    <2>1. watcher' = Asleep /\ UNCHANGED <<disk, written, registry, call>> /\ watcher.pc = "list"
      BY <1>14 DEF EndPass
    <2>2. \A f \in Files : mtimes[f] # 0 => f \in watcher.seen
      BY <2>1 DEF SeenIsNewer
    <2>3. \A f \in Files : mtimes'[f] = mtimes[f]
      BY <1>14, <2>2 DEF EndPass
    <2>4. SeenIsNewer'
      BY <2>1 DEF SeenIsNewer, FileInHand, Asleep
    <2>5. OwnDirectory' /\ EditsAreSeen'
      BY <1>1, <2>1, <2>3 DEF OwnDirectory, EditsAreSeen
    <2> QED
      BY <2>4, <2>5
  <1>15. ASSUME NEW c \in Clients, Client(c) PROVE FALSE
    BY <1>15 DEF Client, Remove, Write, Import, Answer, OwnDirectory
  <1>16. ASSUME NEW c, NEW request, Begin(c, request) PROVE FALSE
    BY <1>16 DEF Begin
  <1>17. CASE UNCHANGED algVars
    BY <1>17 DEF algVars, OwnDirectory, SeenIsNewer, EditsAreSeen, FileInHand
  <1> QED
    BY <1>3, <1>5, <1>6, <1>10, <1>12, <1>13, <1>14, <1>15, <1>16, <1>17
       DEF AlgNext, Watcher, Upload, Replace, Delete

(* Where only editors change the directory, a file saved after its algorithm was registered   *)
(* has a later modification time than the recorded one, so that the next pass of the watcher  *)
(* reads it (_check_for_changes): no edit hides behind the time of an earlier one.            *)
THEOREM NoEditIsHidden == AlgSpec => [](by = {"editor"} => EditsAreSeen)
  <1>1. AlgSpec => []EditorInv
    BY InitEditor, EditorStep, AlgTypesHold, PTL DEF AlgSpec
  <1>2. EditorInv => (by = {"editor"} => EditsAreSeen)
    BY DEF EditorInv
  <1> QED
    BY <1>1, <1>2, PTL

-----------------------------------------------------------------------------
(* The invariant of the rows of backtest requests. *)

Rows == [status : {"none", "pending", "running"} \cup Terminal, metrics : BOOLEAN, trades : BOOLEAN]
Reports == [req : Requests, to : {"running"} \cup Terminal, read : {<<>>} \cup {<<row>> : row \in Rows}]
BacktestResults == [req : Requests, to : Terminal]
EngineStates == [pc : {"idle"}, req : {"none"}] \cup [pc : {"runs", "raised"} \cup Terminal, req : Requests]

RequestTypes ==
    /\ rqRow \in [Requests -> Rows]
    /\ rqRoute \in [Requests -> {"unsent", "never", "saved", "sent", "refused"}]
    /\ rqQueue \in Seq(Requests) /\ rqEngine \in EngineStates
    /\ rqHandlers \in SUBSET Reports
    /\ rqResults \in Seq(BacktestResults) /\ rqBatch \in Seq(BacktestResults)
    /\ rqPoller \in [pc : {"idle", "save", "trades"}, snap : Rows]
    /\ rqUp \in BOOLEAN /\ rqFaults \in 0 .. MaxFaults /\ rqDeaths \in 0 .. MaxDeaths
    /\ rqExcused \in SUBSET Requests

(* What a handler or the poller is about to save over was not final when it was read. *)
ReadsAreOpen ==
    /\ \A h \in rqHandlers : h.read # <<>> => h.read[1].status \notin Terminal
    /\ rqPoller.pc # "idle" => rqBatch # <<>>
    /\ rqPoller.pc = "save" => rqPoller.snap.status \notin LeftAlone

(* No part knows a request that nobody has made. *)
Unmade == \A r \in Requests : rqRoute[r] \in {"unsent", "never"} =>
              /\ rqRow[r] = NoRow
              /\ rqEngine.pc # "idle" => rqEngine.req # r
              /\ r \notin Entries(rqQueue)
              /\ \A h \in rqHandlers : h.req # r
              /\ \A e \in Entries(rqResults) \cup Entries(rqBatch) : e.req # r

(* A completed result that the poller has yet to save. *)
Unsaved == Entries(rqResults) \cup Entries(IF rqPoller.pc = "trades" THEN Tail(rqBatch) ELSE rqBatch)
ResultOnItsWay(r) == [req |-> r, to |-> "completed"] \in Unsaved

SaidComplete(r) == \/ \E h \in rqHandlers : h.req = r /\ h.to = "completed"
                   \/ rqEngine = [pc |-> "completed", req |-> r]
                   \/ rqRow[r].status = "completed"

Delivered(r) == r \in rqExcused \/ rqRow[r].metrics \/ rqRow[r].status = "failed" \/ ResultOnItsWay(r)

SayingIsTrue == \A r \in Requests : SaidComplete(r) => Delivered(r)

RequestsInv == RequestTypes /\ ReadsAreOpen /\ Unmade /\ SayingIsTrue

LEMMA InitRequests == RequestsInit => RequestsInv
  <1> SUFFICES ASSUME RequestsInit PROVE RequestsInv
    OBVIOUS
  <1>1. Entries(<<>>) = {} /\ \A S : <<>> \in Seq(S)
    BY DEF Entries
  <1>2. NoRow \in Rows /\ rqPoller \in [pc : {"idle", "save", "trades"}, snap : Rows]
    BY DEF RequestsInit, NoRow, Rows
  <1>3. RequestTypes
    BY <1>1, <1>2, RequestsAssumption DEF RequestTypes, RequestsInit, EngineStates, NoWork
  <1>4. SayingIsTrue
    BY DEF SayingIsTrue, SaidComplete, RequestsInit, NoWork, NoRow
  <1> QED
    BY <1>1, <1>3, <1>4 DEF RequestsInv, ReadsAreOpen, Unmade, RequestsInit, NoWork

(* What the actions of the queue and of the stream leave of the two of them. *)
LEMMA QueueSteps ==
    ASSUME RequestTypes, NEW r \in Requests, NEW e \in BacktestResults
    PROVE  /\ Append(rqQueue, r) \in Seq(Requests) /\ Entries(Append(rqQueue, r)) = Entries(rqQueue) \cup {r}
           /\ Append(rqResults, e) \in Seq(BacktestResults)
           /\ Entries(Append(rqResults, e)) = Entries(rqResults) \cup {e}
           /\ rqQueue # <<>> => /\ Head(rqQueue) \in Requests /\ Tail(rqQueue) \in Seq(Requests)
                                /\ Entries(rqQueue) = Entries(Tail(rqQueue)) \cup {Head(rqQueue)}
           /\ rqBatch # <<>> => /\ Polled \in BacktestResults /\ Tail(rqBatch) \in Seq(BacktestResults)
                                /\ Entries(rqBatch) = Entries(Tail(rqBatch)) \cup {Polled}
  BY EntriesOfAppend, EntriesOfTail DEF RequestTypes, Polled

LEMMA SavedRow ==
    ASSUME RequestTypes, NEW r \in Requests, NEW status \in {"none", "pending", "running"} \cup Terminal,
           NEW metrics \in BOOLEAN, NEW snap, Saved(r, status, metrics, snap)
    PROVE  /\ rqRow' \in [Requests -> Rows] /\ rqExcused' \in SUBSET Requests /\ rqExcused \subseteq rqExcused'
           /\ rqRow'[r].status = status /\ rqRow'[r].metrics = metrics
           /\ \A q \in Requests : q # r => rqRow'[q] = rqRow[q] /\ (q \in rqExcused' => q \in rqExcused)
           /\ r \notin rqExcused' => rqRow[r].status = snap.status /\ rqRow[r].metrics = snap.metrics
  <1>1. rqRow' = [rqRow EXCEPT ![r].status = status, ![r].metrics = metrics]
    BY DEF Saved
  <1>2. rqRow' = [rqRow EXCEPT ![r] = [rqRow[r] EXCEPT !.status = status, !.metrics = metrics]]
    BY <1>1, Zenon
  <1>3. rqRow[r] \in Rows /\ [rqRow[r] EXCEPT !.status = status, !.metrics = metrics] \in Rows
    BY DEF RequestTypes, Rows
  <1> QED
    BY <1>2, <1>3 DEF Saved, RequestTypes, Rows

LEMMA RequestTypesStep == RequestsInv /\ [RequestsNext]_rqVars => RequestTypes'
  <1> SUFFICES ASSUME RequestTypes, ReadsAreOpen, [RequestsNext]_rqVars PROVE RequestTypes'
    BY DEF RequestsInv
  <1>1. ASSUME NEW r \in Requests, Create(r) PROVE RequestTypes'
    <2>1. Pending \in Rows
      BY DEF Pending, NoRow, Rows
    <2> QED
      BY <1>1, <2>1 DEF Create, RequestTypes, rqEngineSide
  <1>2. ASSUME NEW r \in Requests, PublishRequest(r) PROVE RequestTypes'
    <2>1. rqFaults' \in 0 .. MaxFaults
      BY <1>2, RequestsAssumption DEF PublishRequest, Answered, NotAnswered, RequestTypes
    <2>2. rqQueue \in Seq(Requests) /\ Append(rqQueue, r) \in Seq(Requests)
      BY EntriesOfAppend DEF RequestTypes
    <2> QED
      BY <1>2, <2>1, <2>2 DEF PublishRequest, RequestTypes
  <1>3. ASSUME NEW r \in Requests, MarkFailed(r) PROVE RequestTypes'
    <2>1. rqRow' \in [Requests -> Rows] /\ rqExcused' \in SUBSET Requests
      BY <1>3, SavedRow DEF MarkFailed, Terminal
    <2> QED
      BY <1>3, <2>1 DEF MarkFailed, RequestTypes, rqEngineSide
  <1>4. ASSUME NEW r \in Requests, NEW to \in {"running"} \cup Terminal, PublishStatus(r, to)
        PROVE  rqHandlers' \in SUBSET Reports /\ rqFaults' \in 0 .. MaxFaults
    BY <1>4, RequestsAssumption
       DEF PublishStatus, Report, Reports, Answered, NotAnswered, RequestTypes
  <1>5. CASE Take
    <2>1. Head(rqQueue) \in Requests /\ rqQueue' \in Seq(Requests)
      BY <1>5, EntriesOfTail DEF Take, RequestTypes
    <2>2. rqHandlers' \in SUBSET Reports /\ rqFaults' \in 0 .. MaxFaults
      BY <1>4, <1>5, <2>1 DEF Take
    <2>3. rqEngine' \in EngineStates
      BY <1>5, <2>1 DEF Take, EngineStates
    <2> QED
      BY <1>5, <2>1, <2>2, <2>3 DEF Take, RequestTypes, rqBackend
  <1>6. CASE Execute
    <2>1. rqEngine.req \in Requests
      BY <1>6 DEF Execute, RequestTypes, EngineStates
    <2>2. rqEngine' \in EngineStates
      BY <1>6, <2>1 DEF Execute, RequestTypes, EngineStates, Terminal
    <2>3. rqFaults' \in 0 .. MaxFaults
      BY <1>6, RequestsAssumption DEF Execute, Answered, NotAnswered, RequestTypes
    <2>4. rqResults' \in Seq(BacktestResults)
      <3>1. [req |-> rqEngine.req, to |-> "completed"] \in BacktestResults
        BY <2>1 DEF BacktestResults, Terminal
      <3>2. /\ rqResults \in Seq(BacktestResults)
            /\ Append(rqResults, [req |-> rqEngine.req, to |-> "completed"]) \in Seq(BacktestResults)
        BY <3>1, EntriesOfAppend DEF RequestTypes
      <3> QED
        BY <1>6, <3>2 DEF Execute
    <2> QED
      BY <1>6, <2>2, <2>3, <2>4 DEF Execute, RequestTypes, rqBackend
  <1>7. CASE AppendFailure
    <2>1. rqEngine.req \in Requests
      BY <1>7 DEF AppendFailure, RequestTypes, EngineStates
    <2>2. rqEngine' \in EngineStates
      BY <1>7, <2>1 DEF AppendFailure, RequestTypes, EngineStates, Terminal
    <2>3. rqFaults' \in 0 .. MaxFaults
      BY <1>7, RequestsAssumption DEF AppendFailure, Answered, NotAnswered, RequestTypes
    <2>4. rqResults' \in Seq(BacktestResults)
      <3>1. [req |-> rqEngine.req, to |-> "failed"] \in BacktestResults
        BY <2>1 DEF BacktestResults, Terminal
      <3>2. /\ rqResults \in Seq(BacktestResults)
            /\ Append(rqResults, [req |-> rqEngine.req, to |-> "failed"]) \in Seq(BacktestResults)
        BY <3>1, EntriesOfAppend DEF RequestTypes
      <3> QED
        BY <1>7, <3>2 DEF AppendFailure
    <2> QED
      BY <1>7, <2>2, <2>3, <2>4 DEF AppendFailure, RequestTypes, rqBackend
  <1>8. CASE Finish
    <2>1. rqEngine.req \in Requests /\ rqEngine.pc \in Terminal
      BY <1>8 DEF Finish, RequestTypes, EngineStates, Terminal
    <2>2. rqHandlers' \in SUBSET Reports /\ rqFaults' \in 0 .. MaxFaults
      BY <1>4, <1>8, <2>1 DEF Finish
    <2>3. rqEngine' \in EngineStates
      BY <1>8 DEF Finish, NoWork, EngineStates
    <2> QED
      BY <1>8, <2>2, <2>3 DEF Finish, RequestTypes, rqBackend
  <1>9. CASE EngineDies
    <2>1. rqEngine.req \in Requests /\ NoWork \in EngineStates
      BY <1>9 DEF EngineDies, RequestTypes, EngineStates, NoWork
    <2> QED
      BY <1>9, <2>1, RequestsAssumption DEF EngineDies, RequestTypes
  <1>10. ASSUME NEW h \in rqHandlers, ReadForStatus(h) PROVE RequestTypes'
    <2>1. h \in Reports /\ rqRow[h.req] \in Rows
      BY DEF RequestTypes, Reports
    <2>2. [h EXCEPT !.read = <<rqRow[h.req]>>] \in Reports
      BY <2>1 DEF Reports
    <2> QED
      BY <1>10, <2>2 DEF ReadForStatus, RequestTypes, rqEngineSide
  <1>11. ASSUME NEW h \in rqHandlers, SaveStatus(h) PROVE RequestTypes'
    <2>1. h.req \in Requests /\ h.to \in {"running"} \cup Terminal /\ h.read[1].metrics \in BOOLEAN
      BY <1>11 DEF SaveStatus, RequestTypes, Reports, Rows
    <2>2. rqRow' \in [Requests -> Rows] /\ rqExcused' \in SUBSET Requests
      BY <1>11, <2>1, SavedRow DEF SaveStatus
    <2> QED
      BY <1>11, <2>2 DEF SaveStatus, RequestTypes, rqEngineSide
  <1>12. CASE Poll
    BY <1>12, EntriesOfAppend DEF Poll, RequestTypes, rqEngineSide
  <1>13. NoRow \in Rows
    BY DEF NoRow, Rows
  <1>14. ASSUME rqBatch # <<>>
         PROVE  Polled \in BacktestResults /\ rqRow[Polled.req] \in Rows /\ Tail(rqBatch) \in Seq(BacktestResults)
    <2>1. Polled \in BacktestResults /\ Tail(rqBatch) \in Seq(BacktestResults)
      BY <1>14, EntriesOfTail DEF Polled, RequestTypes
    <2> QED
      BY <2>1 DEF RequestTypes, BacktestResults
  <1>15. CASE ReadForResult
    <2>1. rqBatch' \in Seq(BacktestResults)
      BY <1>14, <1>15 DEF ReadForResult, Done, RequestTypes
    <2>2. rqPoller' \in [pc : {"idle", "save", "trades"}, snap : Rows]
      BY <1>13, <1>14, <1>15 DEF ReadForResult, Done, Goes
    <2> QED
      BY <1>15, <2>1, <2>2 DEF ReadForResult, PollerOnly, RequestTypes, rqEngineSide
  <1>16. CASE SaveResult
    <2>1. rqBatch # <<>>
      BY <1>16 DEF SaveResult, ReadsAreOpen
    <2>2. rqBatch' \in Seq(BacktestResults)
      BY <1>14, <1>16, <2>1 DEF SaveResult, Done, RequestTypes
    <2>3. rqPoller' \in [pc : {"idle", "save", "trades"}, snap : Rows]
      BY <1>13, <1>16 DEF SaveResult, Done, Goes
    <2>4. Polled.req \in Requests /\ Polled.to \in Terminal
      BY <1>14, <2>1 DEF BacktestResults
    <2>5. rqRow' \in [Requests -> Rows] /\ rqExcused' \in SUBSET Requests
      BY <1>16, <2>4, SavedRow DEF SaveResult
    <2> QED
      BY <1>16, <2>2, <2>3, <2>5 DEF SaveResult, PollerOnly, RequestTypes, rqEngineSide
  <1>17. CASE SaveTrades
    <2>1. rqBatch # <<>>
      BY <1>17 DEF SaveTrades, ReadsAreOpen
    <2>2. rqBatch' \in Seq(BacktestResults)
      BY <1>14, <1>17, <2>1 DEF SaveTrades, Done, RequestTypes
    <2>3. rqPoller' \in [pc : {"idle", "save", "trades"}, snap : Rows]
      BY <1>13, <1>17 DEF SaveTrades, Done, Goes
    <2>4. rqRow' \in [Requests -> Rows]
      <3>1. rqRow' = [rqRow EXCEPT ![Polled.req] = [rqRow[Polled.req] EXCEPT !.trades = TRUE]]
        BY <1>17, Zenon DEF SaveTrades
      <3>2. [rqRow[Polled.req] EXCEPT !.trades = TRUE] \in Rows
        BY <1>14, <2>1 DEF Rows
      <3> QED
        BY <3>1, <3>2 DEF RequestTypes
    <2> QED
      BY <1>17, <2>2, <2>3, <2>4 DEF SaveTrades, PollerOnly, RequestTypes, rqEngineSide
  <1>18. CASE BackendDies
    <2>1. {rqBatch[i].req : i \in DOMAIN rqBatch} \subseteq Requests
      <3>1. \A i \in DOMAIN rqBatch : rqBatch[i] \in BacktestResults
        BY DEF RequestTypes
      <3> QED
        BY <3>1 DEF BacktestResults
    <2>2. rqRoute' \in [Requests -> {"unsent", "never", "saved", "sent", "refused"}]
      BY <1>18 DEF BackendDies, RequestTypes
    <2>3. rqPoller' \in [pc : {"idle", "save", "trades"}, snap : Rows]
      BY <1>13, <1>18 DEF BackendDies
    <2>4. rqHandlers' = {} /\ rqBatch' = <<>> /\ rqUp' \in BOOLEAN
      BY <1>18 DEF BackendDies
    <2>6. <<>> \in Seq(BacktestResults)
      OBVIOUS
    <2>5. rqExcused' \in SUBSET Requests /\ rqDeaths' \in 0 .. MaxDeaths
      BY <1>18, <2>1, RequestsAssumption DEF BackendDies, RequestTypes
    <2> QED
      BY <1>18, <2>2, <2>3, <2>4, <2>5, <2>6 DEF BackendDies, RequestTypes
  <1>19. CASE BackendStarts
    <2>1. \A r \in Requests : [rqRow[r] EXCEPT !.status = "failed"] \in Rows
      BY DEF RequestTypes, Rows, Terminal
    <2>2. rqRow' \in [Requests -> Rows]
      BY <1>19, <2>1 DEF BackendStarts, RequestTypes
    <2> QED
      BY <1>19, <2>2 DEF BackendStarts, RequestTypes, rqEngineSide
  <1>20. CASE UNCHANGED rqVars
    BY <1>20 DEF rqVars, RequestTypes
  <1> QED
    BY <1>1, <1>2, <1>3, <1>5, <1>6, <1>7, <1>8, <1>9, <1>10, <1>11, <1>12, <1>15, <1>16, <1>17,
       <1>18, <1>19, <1>20
       DEF RequestsNext, EngineRuns, PollerRuns, Handler, Route


LEMMA ReadsAreOpenStep == RequestsInv /\ [RequestsNext]_rqVars => ReadsAreOpen'
  <1> SUFFICES ASSUME RequestTypes, ReadsAreOpen, [RequestsNext]_rqVars PROVE ReadsAreOpen'
    BY DEF RequestsInv
  <1> DEFINE HandlersOpen == \A h \in rqHandlers : h.read # <<>> => h.read[1].status \notin Terminal
  <1>1. ASSUME \A h \in rqHandlers' : h \in rqHandlers \/ h.read = <<>> PROVE HandlersOpen'
    BY <1>1 DEF ReadsAreOpen
  <1>2. ASSUME UNCHANGED rqPoller, rqBatch' = rqBatch, HandlersOpen' PROVE ReadsAreOpen'
    BY <1>2 DEF ReadsAreOpen, LeftAlone, Polled
  <1>3. ASSUME NEW r, NEW to, PublishStatus(r, to) PROVE HandlersOpen'
    <2>1. Report(r, to).read = <<>>
      BY DEF Report
    <2> QED
      BY <1>1, <1>3, <2>1 DEF PublishStatus
  <1>4. ASSUME NEW r \in Requests, Create(r) \/ Route(r) PROVE ReadsAreOpen'
    BY <1>1, <1>2, <1>4 DEF Create, Route, PublishRequest, MarkFailed
  <1>5. CASE EngineRuns \/ EngineDies
    BY <1>1, <1>2, <1>3, <1>5 DEF EngineRuns, EngineDies, Take, Execute, AppendFailure, Finish, rqBackend
  <1>6. ASSUME NEW h \in rqHandlers, ReadForStatus(h) PROVE ReadsAreOpen'
    <2>1. ASSUME NEW g \in rqHandlers', g.read # <<>> PROVE g.read[1].status \notin Terminal
      <3>1. CASE g \in rqHandlers
        BY <2>1, <3>1 DEF ReadsAreOpen
      <3>2. CASE g = [h EXCEPT !.read = <<rqRow[h.req]>>] /\ rqRow[h.req].status \notin Terminal
        <4>1. h \in Reports
          BY DEF RequestTypes
        <4>2. g.read = <<rqRow[h.req]>>
          BY <3>2, <4>1 DEF Reports
        <4> QED
          BY <3>2, <4>2
      <3> QED
        BY <1>6, <2>1, <3>1, <3>2 DEF ReadForStatus
    <2> QED
      BY <1>2, <1>6, <2>1 DEF ReadForStatus
  <1>7. ASSUME NEW h \in rqHandlers, SaveStatus(h) PROVE ReadsAreOpen'
    BY <1>1, <1>2, <1>7 DEF SaveStatus
  <1>8. CASE PollerRuns
    <2>1. HandlersOpen'
      BY <1>1, <1>8 DEF PollerRuns, Poll, ReadForResult, SaveResult, SaveTrades, PollerOnly
    <2>2. CASE Poll
      <3>1. rqPoller.pc = "idle"
        BY <2>2 DEF Poll, ReadsAreOpen
      <3> QED
        BY <2>1, <2>2, <3>1 DEF Poll, ReadsAreOpen
    <2>3. ASSUME Done PROVE rqPoller'.pc = "idle"
      BY <2>3 DEF Done, Goes
    <2>4. CASE ReadForResult
      BY <2>1, <2>3, <2>4 DEF ReadForResult, ReadsAreOpen, Goes, Polled, LeftAlone
    <2>5. CASE SaveResult
      BY <2>1, <2>3, <2>5 DEF SaveResult, ReadsAreOpen, Goes
    <2>6. CASE SaveTrades
      BY <2>1, <2>3, <2>6 DEF SaveTrades, ReadsAreOpen
    <2> QED
      BY <1>8, <2>2, <2>4, <2>5, <2>6 DEF PollerRuns
  <1>9. CASE BackendDies
    BY <1>9 DEF BackendDies, ReadsAreOpen
  <1>10. CASE BackendStarts
    BY <1>1, <1>2, <1>10 DEF BackendStarts
  <1>11. CASE UNCHANGED rqVars
    BY <1>1, <1>2, <1>11 DEF rqVars
  <1> QED
    BY <1>4, <1>5, <1>6, <1>7, <1>8, <1>9, <1>10, <1>11 DEF RequestsNext, Handler

LEMMA UnmadeStep == RequestsInv /\ [RequestsNext]_rqVars => Unmade'
  <1> SUFFICES ASSUME RequestTypes, ReadsAreOpen, Unmade, [RequestsNext]_rqVars,
                      NEW r \in Requests, rqRoute'[r] \in {"unsent", "never"}
               PROVE  /\ rqRow'[r] = NoRow
                      /\ rqEngine'.pc # "idle" => rqEngine'.req # r
                      /\ r \notin Entries(rqQueue')
                      /\ \A h \in rqHandlers' : h.req # r
                      /\ \A e \in Entries(rqResults') \cup Entries(rqBatch') : e.req # r
    BY DEF RequestsInv, Unmade
  <1> DEFINE Unknown == /\ rqRow[r] = NoRow
                        /\ rqEngine.pc # "idle" => rqEngine.req # r
                        /\ r \notin Entries(rqQueue)
                        /\ \A h \in rqHandlers : h.req # r
                        /\ \A e \in Entries(rqResults) \cup Entries(rqBatch) : e.req # r
  <1> SUFFICES Unknown'
    OBVIOUS
  <1>1. ASSUME rqRoute[r] \in {"unsent", "never"} PROVE Unknown
    BY <1>1 DEF Unmade
  <1>2. ASSUME NEW q \in Requests, Create(q) PROVE Unknown'
    <2>1. q # r
      BY <1>2 DEF Create, RequestTypes
    <2> QED
      BY <1>1, <1>2, <2>1 DEF Create, RequestTypes, rqEngineSide
  <1>3. ASSUME NEW q \in Requests, PublishRequest(q) PROVE Unknown'
    <2>1. q # r
      BY <1>3 DEF PublishRequest, RequestTypes
    <2>2. Entries(Append(rqQueue, q)) = Entries(rqQueue) \cup {q}
      BY EntriesOfAppend DEF RequestTypes
    <2> QED
      BY <1>1, <1>3, <2>1, <2>2 DEF PublishRequest, RequestTypes
  <1>4. ASSUME NEW q \in Requests, MarkFailed(q) PROVE Unknown'
    <2>1. q # r
      BY <1>4 DEF MarkFailed, RequestTypes
    <2>2. rqRow'[r] = rqRow[r]
      BY <1>4, <2>1, SavedRow DEF MarkFailed, Terminal
    <2> QED
      BY <1>1, <1>4, <2>1, <2>2 DEF MarkFailed, RequestTypes, rqEngineSide
  <1>5. CASE Take
    <2>1. Unknown /\ Entries(rqQueue) = Entries(Tail(rqQueue)) \cup {Head(rqQueue)}
      BY <1>1, <1>5, EntriesOfTail DEF Take, rqBackend, RequestTypes
    <2>2. Report(Head(rqQueue), "running").req # r
      BY <2>1 DEF Report
    <2> QED
      BY <1>5, <2>1, <2>2 DEF Take, PublishStatus, rqBackend
  <1>6. CASE Execute \/ AppendFailure
    <2>1. Unknown /\ rqEngine.req # r /\ rqEngine.req \in Requests
      BY <1>1, <1>6 DEF Execute, AppendFailure, rqBackend, RequestTypes, EngineStates
    <2>2. rqEngine'.req = rqEngine.req
      BY <1>6 DEF Execute, AppendFailure, RequestTypes, EngineStates
    <2>3. ASSUME NEW to \in Terminal
          PROVE  Entries(Append(rqResults, [req |-> rqEngine.req, to |-> to])) =
                 Entries(rqResults) \cup {[req |-> rqEngine.req, to |-> to]}
      <3>1. [req |-> rqEngine.req, to |-> to] \in BacktestResults
        BY <2>1 DEF BacktestResults
      <3> QED
        BY <3>1, EntriesOfAppend DEF RequestTypes
    <2>4. \E to \in Terminal : \/ rqResults' = rqResults
                               \/ rqResults' = Append(rqResults, [req |-> rqEngine.req, to |-> to])
      BY <1>6 DEF Execute, AppendFailure, Terminal
    <2>5. \A e \in Entries(rqResults') : e \in Entries(rqResults) \/ e.req = rqEngine.req
      <3>1. PICK to \in Terminal : \/ rqResults' = rqResults
                                  \/ rqResults' = Append(rqResults, [req |-> rqEngine.req, to |-> to])
        BY <2>4
      <3>2. [req |-> rqEngine.req, to |-> to].req = rqEngine.req
        OBVIOUS
      <3>3. Entries(rqResults') \subseteq Entries(rqResults) \cup {[req |-> rqEngine.req, to |-> to]}
        BY <2>3, <3>1
      <3> QED
        BY <3>2, <3>3
    <2> QED
      BY <1>6, <2>1, <2>2, <2>5 DEF Execute, AppendFailure, rqBackend
  <1>7. CASE Finish
    <2>1. Unknown /\ Report(rqEngine.req, rqEngine.pc).req # r
      BY <1>1, <1>7 DEF Finish, Report, Terminal, rqBackend
    <2> QED
      BY <1>7, <2>1 DEF Finish, PublishStatus, NoWork, rqBackend
  <1>8. CASE EngineDies
    BY <1>1, <1>8 DEF EngineDies, NoWork
  <1>9. ASSUME NEW h \in rqHandlers, ReadForStatus(h) PROVE Unknown'
    <2>1. Unknown /\ h \in Reports
      BY <1>1, <1>9 DEF ReadForStatus, RequestTypes
    <2>2. [h EXCEPT !.read = <<rqRow[h.req]>>].req = h.req
      BY <2>1 DEF Reports
    <2> QED
      BY <1>9, <2>1, <2>2 DEF ReadForStatus, rqEngineSide
  <1>10. ASSUME NEW h \in rqHandlers, SaveStatus(h) PROVE Unknown'
    <2>1. Unknown /\ h \in Reports /\ h.read # <<>>
      BY <1>1, <1>10 DEF SaveStatus, RequestTypes
    <2>2. h.req \in Requests /\ h.to \in {"running"} \cup Terminal /\ h.read[1].metrics \in BOOLEAN
      BY <2>1 DEF Reports, Rows
    <2>3. h.req # r
      BY <2>1
    <2>4. Saved(h.req, h.to, h.read[1].metrics, h.read[1])
      BY <1>10 DEF SaveStatus
    <2>5. rqRow'[r] = rqRow[r]
      BY <2>3, <2>4 DEF Saved, RequestTypes
    <2> QED
      BY <1>10, <2>1, <2>5 DEF SaveStatus, rqEngineSide
  <1>11. CASE PollerRuns
    <2>1. Unknown
      BY <1>1, <1>11 DEF PollerRuns, Poll, ReadForResult, SaveResult, SaveTrades, PollerOnly
    <2>2. ASSUME rqBatch # <<>>
          PROVE  /\ Polled \in BacktestResults /\ Polled.req # r
                 /\ Entries(Tail(rqBatch)) \subseteq Entries(rqBatch)
      <3>1. Entries(rqBatch) = Entries(Tail(rqBatch)) \cup {Polled} /\ Polled \in BacktestResults
        BY <2>2, EntriesOfTail DEF RequestTypes, Polled
      <3> QED
        BY <2>1, <3>1
    <2>3. CASE Poll
      BY <2>1, <2>3 DEF Poll, rqEngineSide, Entries
    <2>4. CASE ReadForResult
      BY <2>1, <2>2, <2>4 DEF ReadForResult, Done, PollerOnly, rqEngineSide
    <2>5. CASE SaveResult
      <3>1. rqBatch # <<>>
        BY <2>5 DEF SaveResult, ReadsAreOpen
      <3>2. Polled.req \in Requests /\ Polled.to \in Terminal
        BY <2>2, <3>1 DEF BacktestResults
      <3>3. rqRow'[r] = rqRow[r]
        BY <2>2, <2>5, <3>1, <3>2, SavedRow DEF SaveResult
      <3> QED
        BY <2>1, <2>2, <2>5, <3>1, <3>3 DEF SaveResult, Done, PollerOnly, rqEngineSide
    <2>6. CASE SaveTrades
      <3>1. rqBatch # <<>>
        BY <2>6 DEF SaveTrades, ReadsAreOpen
      <3>2. rqRow'[r] = rqRow[r]
        BY <2>2, <2>6, <3>1 DEF SaveTrades, RequestTypes
      <3> QED
        BY <2>1, <2>2, <2>6, <3>1, <3>2 DEF SaveTrades, Done, PollerOnly, rqEngineSide
    <2> QED
      BY <1>11, <2>3, <2>4, <2>5, <2>6 DEF PollerRuns
  <1>12. CASE BackendDies
    <2>1. rqRoute[r] \in {"unsent", "never"}
      BY <1>12 DEF BackendDies, RequestTypes
    <2> QED
      BY <1>1, <1>12, <2>1 DEF BackendDies, Entries
  <1>13. CASE BackendStarts
    <2>1. Unknown
      BY <1>1, <1>13 DEF BackendStarts
    <2>2. rqRow'[r] = rqRow[r]
      BY <1>13, <2>1 DEF BackendStarts, Stale, NoRow
    <2> QED
      BY <1>13, <2>1, <2>2 DEF BackendStarts, rqEngineSide
  <1>14. CASE UNCHANGED rqVars
    BY <1>1, <1>14 DEF rqVars
  <1> QED
    BY <1>2, <1>3, <1>4, <1>5, <1>6, <1>7, <1>8, <1>9, <1>10, <1>11, <1>12, <1>13, <1>14
       DEF RequestsNext, EngineRuns, Handler, Route


LEMMA SayingIsTrueStep == RequestsInv /\ RequestTypes' /\ [RequestsNext]_rqVars => SayingIsTrue'
  <1> SUFFICES ASSUME RequestTypes, ReadsAreOpen, Unmade, SayingIsTrue, RequestTypes',
                      [RequestsNext]_rqVars, NEW r \in Requests, SaidComplete(r)'
               PROVE  Delivered(r)'
    BY DEF RequestsInv, SayingIsTrue
  <1> DEFINE goal == [req |-> r, to |-> "completed"]
  <1>1. ASSUME SaidComplete(r), rqRow'[r] = rqRow[r], rqExcused \subseteq rqExcused',
               goal \in Unsaved => goal \in Unsaved'
        PROVE  Delivered(r)'
    BY <1>1 DEF SayingIsTrue, Delivered, ResultOnItsWay
  <1>2. ASSUME NEW q \in Requests, Create(q) PROVE Delivered(r)'
    <2>1. q # r
      <3>1. ASSUME q = r PROVE FALSE
        <4>1. rqRow'[r].status = "pending"
          BY <1>2, <3>1 DEF Create, RequestTypes, Pending, NoRow
        <4>2. rqEngine' = rqEngine /\ rqHandlers' = rqHandlers
          BY <1>2 DEF Create, rqEngineSide
        <4> QED
          BY <1>2, <3>1, <4>1, <4>2 DEF Create, Unmade, SaidComplete
      <3> QED
        BY <3>1
    <2>2. rqRow'[r] = rqRow[r] /\ rqExcused' = rqExcused /\ Unsaved' = Unsaved
      BY <1>2, <2>1 DEF Create, RequestTypes, Unsaved
    <2>3. SaidComplete(r)
      BY <1>2, <2>2 DEF Create, rqEngineSide, SaidComplete
    <2> QED
      BY <1>1, <2>2, <2>3
  <1>3. ASSUME NEW q \in Requests, PublishRequest(q) PROVE Delivered(r)'
    BY <1>1, <1>3 DEF PublishRequest, SaidComplete, Unsaved
  <1>4. ASSUME NEW q \in Requests, MarkFailed(q) PROVE Delivered(r)'
    <2>1. Saved(q, "failed", FALSE, Pending)
      BY <1>4 DEF MarkFailed
    <2>2. CASE q = r
      BY <2>1, <2>2, SavedRow DEF Delivered, Terminal
    <2>3. CASE q # r
      <3>1. rqRow'[r] = rqRow[r] /\ rqExcused \subseteq rqExcused'
        BY <2>1, <2>3 DEF Saved, RequestTypes
      <3>2. SaidComplete(r) /\ Unsaved' = Unsaved
        BY <1>4, <3>1 DEF MarkFailed, rqEngineSide, SaidComplete, Unsaved
      <3> QED
        BY <1>1, <3>1, <3>2
    <2> QED
      BY <2>2, <2>3
  <1>5. CASE Take
    <2>1. SaidComplete(r)
      <3>1. Report(Head(rqQueue), "running").to # "completed"
        BY DEF Report
      <3> QED
        BY <1>5, <3>1 DEF Take, PublishStatus, rqBackend, SaidComplete
    <2> QED
      BY <1>1, <1>5, <2>1 DEF Take, rqBackend, Unsaved
  <1>6. CASE Execute \/ AppendFailure
    <2>1. rqEngine.req \in Requests
      BY <1>6 DEF Execute, AppendFailure, RequestTypes, EngineStates
    <2>2. ASSUME NEW to \in Terminal
          PROVE  Entries(Append(rqResults, [req |-> rqEngine.req, to |-> to])) =
                 Entries(rqResults) \cup {[req |-> rqEngine.req, to |-> to]}
      <3>1. [req |-> rqEngine.req, to |-> to] \in BacktestResults
        BY <2>1 DEF BacktestResults
      <3> QED
        BY <3>1, EntriesOfAppend DEF RequestTypes
    <2>3. Entries(rqResults) \subseteq Entries(rqResults')
      BY <1>6, <2>2 DEF Execute, AppendFailure, Terminal
    <2>4. Unsaved \subseteq Unsaved' /\ UNCHANGED <<rqRow, rqExcused, rqHandlers>>
      BY <1>6, <2>3 DEF Execute, AppendFailure, Unsaved, rqBackend
    <2>5. CASE SaidComplete(r)
      BY <1>1, <2>4, <2>5
    <2>6. CASE ~SaidComplete(r)
      <3>1. rqEngine'.pc = "completed" /\ rqEngine'.req = r
        BY <2>4, <2>6 DEF SaidComplete
      <3>2. /\ rqResults' = Append(rqResults, [req |-> rqEngine.req, to |-> "completed"])
            /\ rqEngine.req = r
        BY <1>6, <3>1 DEF Execute, AppendFailure, RequestTypes, EngineStates
      <3>3. goal \in Entries(rqResults')
        BY <2>2, <3>2 DEF Terminal
      <3> QED
        BY <3>3 DEF Delivered, ResultOnItsWay, Unsaved
    <2> QED
      BY <2>5, <2>6
  <1>7. CASE Finish
    <2>1. UNCHANGED <<rqRow, rqExcused, rqResults, rqBatch, rqPoller>>
      BY <1>7 DEF Finish, rqBackend
    <2>2. CASE rqEngine.pc = "completed" /\ rqEngine.req = r
      <3>1. rqEngine = [pc |-> "completed", req |-> r]
        BY <2>2 DEF RequestTypes, EngineStates
      <3> QED
        BY <1>1, <2>1, <3>1 DEF SaidComplete, Unsaved
    <2>3. CASE ~(rqEngine.pc = "completed" /\ rqEngine.req = r)
      <3>1. ~(Report(rqEngine.req, rqEngine.pc).req = r /\ Report(rqEngine.req, rqEngine.pc).to = "completed")
        BY <2>3 DEF Report
      <3>2. rqEngine' # [pc |-> "completed", req |-> r]
        BY <1>7 DEF Finish, NoWork
      <3>3. SaidComplete(r)
        BY <1>7, <2>1, <3>1, <3>2 DEF Finish, PublishStatus, SaidComplete
      <3> QED
        BY <1>1, <2>1, <3>3 DEF Unsaved
    <2> QED
      BY <2>2, <2>3
  <1>8. CASE EngineDies
    <2>1. rqEngine' # [pc |-> "completed", req |-> r]
      BY <1>8 DEF EngineDies, NoWork
    <2> QED
      BY <1>1, <1>8, <2>1 DEF EngineDies, SaidComplete, Unsaved
  <1>9. ASSUME NEW h \in rqHandlers, ReadForStatus(h) PROVE Delivered(r)'
    <2>1. h \in Reports
      BY DEF RequestTypes
    <2>2. [h EXCEPT !.read = <<rqRow[h.req]>>].req = h.req /\ [h EXCEPT !.read = <<rqRow[h.req]>>].to = h.to
      BY <2>1 DEF Reports
    <2>3. SaidComplete(r)
      BY <1>9, <2>2 DEF ReadForStatus, SaidComplete, rqEngineSide
    <2> QED
      BY <1>1, <1>9, <2>3 DEF ReadForStatus, Unsaved
  <1>10. ASSUME NEW h \in rqHandlers, SaveStatus(h) PROVE Delivered(r)'
    <2>1. /\ h \in Reports /\ h.read # <<>> /\ Saved(h.req, h.to, h.read[1].metrics, h.read[1])
          /\ rqHandlers' = rqHandlers \ {h} /\ UNCHANGED <<rqEngine, rqResults, rqBatch, rqPoller>>
      BY <1>10 DEF SaveStatus, RequestTypes, rqEngineSide
    <2>2. h.req \in Requests /\ h.to \in {"running"} \cup Terminal /\ h.read[1].metrics \in BOOLEAN
      BY <2>1 DEF Reports, Rows
    <2>3. Unsaved' = Unsaved /\ rqExcused \subseteq rqExcused'
      BY <2>1 DEF Unsaved, Saved
    <2>4. CASE h.req # r
      <3>1. rqRow'[r] = rqRow[r]
        BY <2>1, <2>4 DEF Saved, RequestTypes
      <3>2. SaidComplete(r)
        BY <2>1, <3>1 DEF SaidComplete
      <3> QED
        BY <1>1, <2>3, <3>1, <3>2
    <2>5. CASE h.req = r
      <3>1. /\ rqRow'[r].status = h.to /\ rqRow'[r].metrics = h.read[1].metrics
            /\ r \notin rqExcused' => /\ rqRow[r].status = h.read[1].status
                                      /\ rqRow[r].metrics = h.read[1].metrics
        <4> DEFINE status == h.to
                   metrics == h.read[1].metrics
                   snap == h.read[1]
        <4>1. Saved(r, status, metrics, snap)
          BY <2>1, <2>5
        <4>2. status \in {"none", "pending", "running"} \cup Terminal /\ metrics \in BOOLEAN
          BY <2>2
        <4> HIDE DEF status, metrics, snap
        <4>3. /\ rqRow'[r].status = status /\ rqRow'[r].metrics = metrics
              /\ r \notin rqExcused' => rqRow[r].status = snap.status /\ rqRow[r].metrics = snap.metrics
          BY <4>1, <4>2, SavedRow
        <4> QED
          BY <4>3 DEF status, metrics, snap
      <3>2. CASE r \in rqExcused' \/ h.to = "failed"
        BY <3>1, <3>2 DEF Delivered
      <3>3. CASE r \notin rqExcused' /\ h.to # "failed"
        <4>1. rqRow[r].status # "failed"
          BY <2>1, <3>1, <3>3 DEF ReadsAreOpen, Terminal
        <4>2. SaidComplete(r)
          BY <2>1, <2>2, <2>5, <3>1, <3>3 DEF SaidComplete
        <4>3. rqRow[r].metrics \/ ResultOnItsWay(r)
          BY <2>3, <3>3, <4>1, <4>2 DEF SayingIsTrue, Delivered
        <4> QED
          BY <2>3, <3>1, <3>3, <4>3 DEF Delivered, ResultOnItsWay
      <3> QED
        BY <3>2, <3>3
    <2> QED
      BY <2>4, <2>5
  <1>11. CASE PollerRuns
    <2>1. UNCHANGED <<rqEngine, rqHandlers>> /\ rqExcused \subseteq rqExcused'
      BY <1>11 DEF PollerRuns, Poll, ReadForResult, SaveResult, SaveTrades, Saved, PollerOnly, rqEngineSide
    <2>2. ASSUME rqBatch # <<>>
          PROVE  /\ Polled \in BacktestResults
                 /\ Entries(rqBatch) = Entries(Tail(rqBatch)) \cup {Polled}
      BY <2>2, EntriesOfTail DEF RequestTypes, Polled
    <2>3. CASE Poll
      <3>1. rqPoller.pc = "idle" /\ rqBatch = <<>> /\ rqPoller' = rqPoller
        BY <2>3 DEF Poll, ReadsAreOpen
      <3>2. Entries(rqBatch) = {} /\ rqBatch' = rqResults
        BY <2>3, <3>1 DEF Poll, Entries
      <3>3. Unsaved \subseteq Unsaved'
        BY <3>1, <3>2 DEF Unsaved
      <3> QED
        BY <1>1, <2>1, <2>3, <3>3 DEF Poll, SaidComplete
    <2>4. CASE ReadForResult
      <3>1. rqBatch # <<>> /\ rqPoller.pc = "idle" /\ UNCHANGED <<rqRow, rqExcused, rqResults>>
        BY <2>4 DEF ReadForResult, PollerOnly
      <3>2. SaidComplete(r)
        BY <2>1, <3>1 DEF SaidComplete
      <3>3. CASE rqRow[Polled.req].status \notin LeftAlone
        <4>1. rqPoller'.pc = "save" /\ rqBatch' = rqBatch
          BY <2>4, <3>3 DEF ReadForResult, Goes
        <4> QED
          BY <1>1, <3>1, <3>2, <4>1 DEF Unsaved
      <3>4. CASE rqRow[Polled.req].status \in LeftAlone
        <4>1. \/ rqPoller'.pc = "trades" /\ rqBatch' = rqBatch
              \/ rqPoller'.pc = "idle" /\ rqBatch' = Tail(rqBatch)
          BY <2>4, <3>4 DEF ReadForResult, Goes, Done
        <4>2. Unsaved \subseteq Unsaved' \cup {Polled}
          BY <2>2, <3>1, <4>1 DEF Unsaved
        <4>3. CASE Polled = goal
          BY <3>1, <3>4, <4>3 DEF Delivered, LeftAlone
        <4>4. CASE Polled # goal
          BY <1>1, <3>1, <3>2, <4>2, <4>4
        <4> QED
          BY <4>3, <4>4
      <3> QED
        BY <3>3, <3>4
    <2>5. CASE SaveResult
      <3>1. rqBatch # <<>> /\ rqPoller.pc = "save" /\ rqResults' = rqResults
        BY <2>5 DEF SaveResult, ReadsAreOpen, PollerOnly
      <3>2. Polled.req \in Requests /\ Polled.to \in Terminal
        BY <2>2, <3>1 DEF BacktestResults
      <3>3. \/ rqPoller'.pc = "trades" /\ rqBatch' = rqBatch
            \/ rqPoller'.pc = "idle" /\ rqBatch' = Tail(rqBatch)
        BY <2>5 DEF SaveResult, Goes, Done
      <3>4. Unsaved \subseteq Unsaved' \cup {Polled}
        BY <2>2, <3>1, <3>3 DEF Unsaved
      <3>5. Saved(Polled.req, Polled.to, Polled.to = "completed", rqPoller.snap)
        BY <2>5 DEF SaveResult
      <3>6. CASE Polled.req = r
        <4>1. rqRow'[r].status = Polled.to /\ rqRow'[r].metrics = (Polled.to = "completed")
          BY <3>5, <3>6 DEF Saved, RequestTypes, Rows
        <4> QED
          BY <3>2, <4>1 DEF Delivered, Terminal
      <3>7. CASE Polled.req # r
        <4>1. rqRow'[r] = rqRow[r] /\ Polled # goal
          BY <3>5, <3>7 DEF Saved, RequestTypes
        <4>2. SaidComplete(r)
          BY <2>1, <4>1 DEF SaidComplete
        <4> QED
          BY <1>1, <2>1, <3>4, <4>1, <4>2
      <3> QED
        BY <3>6, <3>7
    <2>6. CASE SaveTrades
      <3>1. /\ rqBatch # <<>> /\ rqPoller.pc = "trades" /\ rqResults' = rqResults
            /\ rqBatch' = Tail(rqBatch) /\ rqPoller'.pc = "idle"
        BY <2>6 DEF SaveTrades, ReadsAreOpen, PollerOnly, Done, Goes
      <3>2. Unsaved' = Unsaved
        BY <3>1 DEF Unsaved
      <3>3. /\ rqRow'[r].status = rqRow[r].status /\ rqRow'[r].metrics = rqRow[r].metrics
        BY <2>6 DEF SaveTrades, RequestTypes, Rows
      <3>4. SaidComplete(r) /\ rqExcused' = rqExcused
        BY <2>1, <2>6, <3>3 DEF SaidComplete, SaveTrades
      <3> QED
        BY <3>2, <3>3, <3>4 DEF SayingIsTrue, Delivered, ResultOnItsWay
    <2> QED
      BY <1>11, <2>3, <2>4, <2>5, <2>6 DEF PollerRuns
  <1>12. CASE BackendDies
    <2>1. UNCHANGED <<rqRow, rqEngine, rqResults>> /\ rqHandlers' = {}
          /\ rqExcused' = rqExcused \cup {rqBatch[i].req : i \in DOMAIN rqBatch}
      BY <1>12 DEF BackendDies
    <2>2. SaidComplete(r)
      BY <2>1 DEF SaidComplete
    <2>3. Unsaved \subseteq Entries(rqResults) \cup Entries(rqBatch)
      BY EntriesOfTail DEF Unsaved, ReadsAreOpen, RequestTypes
    <2>4. Entries(rqResults) \subseteq Unsaved'
      BY <2>1 DEF Unsaved
    <2>5. CASE goal \in Entries(rqBatch)
      <3>1. PICK i \in DOMAIN rqBatch : goal = rqBatch[i]
        BY <2>5 DEF Entries
      <3>2. r = rqBatch[i].req
        BY <3>1
      <3> QED
        BY <2>1, <3>2 DEF Delivered
    <2>6. CASE goal \notin Entries(rqBatch)
      BY <1>1, <2>1, <2>2, <2>3, <2>4, <2>6
    <2> QED
      BY <2>5, <2>6
  <1>13. CASE BackendStarts
    <2>1. UNCHANGED <<rqEngine, rqHandlers, rqExcused>> /\ Unsaved' = Unsaved
      BY <1>13 DEF BackendStarts, rqEngineSide, Unsaved
    <2>2. CASE rqRow[r].status \in Stale
      BY <1>13, <2>2 DEF BackendStarts, Delivered, RequestTypes, Rows
    <2>3. CASE rqRow[r].status \notin Stale
      <3>1. rqRow'[r] = rqRow[r]
        BY <1>13, <2>3 DEF BackendStarts
      <3>2. SaidComplete(r)
        BY <2>1, <3>1 DEF SaidComplete
      <3> QED
        BY <1>1, <2>1, <3>1, <3>2
    <2> QED
      BY <2>2, <2>3
  <1>14. CASE UNCHANGED rqVars
    BY <1>1, <1>14 DEF rqVars, SaidComplete, Unsaved
  <1> QED
    BY <1>2, <1>3, <1>4, <1>5, <1>6, <1>7, <1>8, <1>9, <1>10, <1>11, <1>12, <1>13, <1>14
       DEF RequestsNext, EngineRuns, Handler, Route

LEMMA RequestsInvariant == RequestsSpec => []RequestsInv
  <1>1. RequestsInv /\ [RequestsNext]_rqVars => RequestsInv'
    BY RequestTypesStep, ReadsAreOpenStep, UnmadeStep, SayingIsTrueStep DEF RequestsInv
  <1> QED
    BY <1>1, InitRequests, PTL DEF RequestsSpec

(* Type correctness of the rows of requests for backtests, the queues and the messages between *)
(* the backend and the engine.                                                                *)
THEOREM RequestsTypeCorrect == RequestsSpec => []RequestTypes
  BY RequestsInvariant, PTL DEF RequestsInv

(* A row that says completed has its metrics, or the result that brings them is still on its  *)
(* way to the poller, though status messages and results come in any order, saves of stale    *)
(* reads overlap and the backend restarts (_process_request, updateBacktestStatus,            *)
(* updateBacktestResult).  Excused are the requests of RequestsSettle.                        *)
CompletedHasResult ==
    \A r \in Requests : rqRow[r].status = "completed" /\ r \notin rqExcused
                        => rqRow[r].metrics \/ ResultOnItsWay(r)

THEOREM CompletedIsDelivered == RequestsSpec => []CompletedHasResult
  <1>1. RequestsInv => CompletedHasResult
    BY DEF RequestsInv, SayingIsTrue, SaidComplete, Delivered, CompletedHasResult
  <1> QED
    BY <1>1, RequestsInvariant, PTL

(* A finished row keeps its status: neither a late or repeated message, nor the result after  *)
(* it, nor a restart reopens or turns it, but for the saves of stale reads, which are excused. *)
FinalStays ==
    [][\A r \in Requests : rqRow[r].status \in Terminal /\ r \notin rqExcused'
                           => rqRow'[r].status = rqRow[r].status]_rqVars

THEOREM FinishedStaysFinished == RequestsSpec => FinalStays
  <1> DEFINE Stays == \A r \in Requests : rqRow[r].status \in Terminal /\ r \notin rqExcused'
                                          => rqRow'[r].status = rqRow[r].status
  <1>1. RequestsInv /\ [RequestsNext]_rqVars => [Stays]_rqVars
    <2> SUFFICES ASSUME RequestTypes, ReadsAreOpen, Unmade, RequestsNext,
                        NEW r \in Requests, rqRow[r].status \in Terminal, r \notin rqExcused'
                 PROVE  rqRow'[r].status = rqRow[r].status
      BY DEF RequestsInv
    <2>1. ASSUME UNCHANGED rqRow PROVE rqRow'[r].status = rqRow[r].status
      BY <2>1
    <2>2. ASSUME NEW q \in Requests, NEW status, NEW metrics, NEW snap, Saved(q, status, metrics, snap),
                 snap.status \in Terminal => status = snap.status
          PROVE  rqRow'[r].status = rqRow[r].status
      BY <2>2 DEF Saved, RequestTypes, Rows
    <2>3. ASSUME NEW q \in Requests, Create(q) PROVE rqRow'[r].status = rqRow[r].status
      BY <2>3 DEF Create, Unmade, NoRow, Terminal, RequestTypes
    <2>4. ASSUME NEW q \in Requests, Route(q) PROVE rqRow'[r].status = rqRow[r].status
      <3>1. Pending.status \notin Terminal
        BY DEF Pending, NoRow, Terminal
      <3> QED
        BY <2>1, <2>2, <2>4, <3>1 DEF Route, PublishRequest, MarkFailed
    <2>5. CASE EngineRuns \/ EngineDies
      BY <2>1, <2>5 DEF EngineRuns, EngineDies, Take, Execute, AppendFailure, Finish, rqBackend
    <2>6. ASSUME NEW h \in rqHandlers, ReadForStatus(h) PROVE rqRow'[r].status = rqRow[r].status
      BY <2>1, <2>6 DEF ReadForStatus
    <2>7. ASSUME NEW h \in rqHandlers, SaveStatus(h) PROVE rqRow'[r].status = rqRow[r].status
      <3>1. h.req \in Requests /\ h.read[1].status \notin Terminal
        BY <2>7 DEF SaveStatus, ReadsAreOpen, RequestTypes, Reports
      <3>2. Saved(h.req, h.to, h.read[1].metrics, h.read[1])
        BY <2>7 DEF SaveStatus
      <3> QED
        BY <2>2, <3>1, <3>2
    <2>8. CASE Poll \/ ReadForResult
      BY <2>1, <2>8 DEF Poll, ReadForResult
    <2>9. CASE SaveResult
      <3>1. rqBatch # <<>> /\ rqPoller.snap.status \notin LeftAlone
        BY <2>9 DEF SaveResult, ReadsAreOpen
      <3>2. Polled.req \in Requests /\ Polled.to \in Terminal
        <4>1. Polled \in BacktestResults
          BY <3>1, EntriesOfTail DEF RequestTypes, Polled
        <4> QED
          BY <4>1 DEF BacktestResults
      <3>3. Saved(Polled.req, Polled.to, Polled.to = "completed", rqPoller.snap)
        BY <2>9 DEF SaveResult
      <3>4. rqPoller.snap.status \in Terminal => Polled.to = rqPoller.snap.status
        BY <3>1, <3>2 DEF LeftAlone, Terminal
      <3> QED
        BY <2>2, <3>2, <3>3, <3>4
    <2>10. CASE SaveTrades
      BY <2>10 DEF SaveTrades, RequestTypes, Rows
    <2>11. CASE BackendDies
      BY <2>1, <2>11 DEF BackendDies
    <2>12. CASE BackendStarts
      BY <2>12 DEF BackendStarts, Stale, Terminal
    <2> QED
      BY <2>3, <2>4, <2>5, <2>6, <2>7, <2>8, <2>9, <2>10, <2>11, <2>12
         DEF RequestsNext, PollerRuns, Handler
  <1> QED
    BY <1>1, RequestsInvariant, PTL DEF RequestsSpec, FinalStays

=============================================================================
