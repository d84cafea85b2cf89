------------------------------ MODULE Trackers ------------------------------
(***************************************************************************)
(* The tracking strategies of src/tracking: GEO (four frames associated,    *)
(* many targets), LEO and SC (three frames, a verification, one target) and *)
(* Manual, and TrackManager, which replaces one by another.  A strategy     *)
(* runs on the processing thread only, under a lock: one frame is one step. *)
(*                                                                         *)
(* Measurements are points of a line, in half pixels, blobs on even ones,   *)
(* so that the mean motion of three frames is exact; the azimuth/elevation *)
(* of a point is its place on the same line, so that hypot() and the tests  *)
(* by axis, which the code mixes, compare the same number.  The blobs of a  *)
(* frame are ordered by position.  GEO is in Frame space (geoFullLeo).  The *)
(* speed of the stars is constant: StarMotions are the motions that its     *)
(* filters refuse.  The area of a blob is left open: any one may be the largest.    *)
(* Externally validated blobs, which no backend delivers, are left out.     *)
(***************************************************************************)
EXTENDS Integers, FiniteSetsExt, SequencesExt

CONSTANTS Width,            \* of the image
          Views,            \* the sets of blobs that a frame may show
          Clicks,           \* the points that a user chooses
          History,          \* bound: frame infos of a target that are kept
          MaxAge,           \* bound: frames after a reset
          SpdLowAe, ThresholdAe,                   \* LEO; GEO uses the second, too
          SearchRadius, ThresholdMeo, FovCenter,   \* SC; FovCenter: its points
          StarMotions, MotionConsistency,          \* GEO association
          AssociationRadius,        \* of GEO, from the stars and blobs of a frame
          Equatorial,               \* whether blobs have equatorial coordinates
          SpeedError, RadiusStep, RadiusLimit,     \* GEO tracking gate
          NumFramesLiving, LeoWindow, SearchWindow,
          MaxLeoBlobs, MaxRediscoveryBlobs         \* a frame has less to be associated

Positions == 0..Width
Modes == {"init", "manual", "leo", "sc", "geo"}
None == -1

ASSUME TrackersAssumption ==
    /\ Width \in Nat /\ Views \subseteq SUBSET {2 * k : k \in 1..(Width \div 2)}
    /\ {History, MaxAge, NumFramesLiving, LeoWindow, SearchWindow} \subseteq Nat \ {0}
    /\ History >= 4 /\ \A n \in {NumFramesLiving, LeoWindow, SearchWindow} : n <= History
    /\ {SpdLowAe, ThresholdAe, SearchRadius, ThresholdMeo, MotionConsistency, AssociationRadius,
        SpeedError, RadiusStep, RadiusLimit, MaxLeoBlobs, MaxRediscoveryBlobs} \subseteq Nat
    /\ Equatorial \in BOOLEAN
    /\ (FovCenter \cup Clicks) \subseteq Positions /\ StarMotions \subseteq Int

VARIABLES mode,      \* of the strategy in m_strategy, "init" when there is none
          fifo,      \* the measurements of the last frames that association reads
          age,       \* the frames since the fifo of the code was empty
          targets,   \* GEO: m_targets; LEO, SC: m_candidates, then the target
          found, verified,
          nextId,    \* m_nextTargetId of GEO
          manual     \* m_manualBlob, None when not set

trackersVars == <<mode, fifo, age, targets, found, verified, nextId, manual>>

Fresh(m) == /\ mode' = m /\ fifo' = <<>> /\ age' = 0 /\ targets' = <<>>
            /\ found' = FALSE /\ verified' = FALSE /\ nextId' = 1

TrackersInit == /\ mode = "init" /\ fifo = <<>> /\ age = 0 /\ targets = <<>>
                /\ found = FALSE /\ verified = FALSE /\ nextId = 1 /\ manual = None

-----------------------------------------------------------------------------
(* Targets: a path of frame infos, the latest last                          *)

Info(p, v) == [pos |-> p, valid |-> v]
Distance(a, b) == IF a < b THEN b - a ELSE a - b
LastN(s, n) == SubSeq(s, Max({1, Len(s) - n + 1}), Len(s))
Extend(path, info) == LastN(Append(path, info), History)
Target(id, path, living) == [id |-> id, path |-> path, living |-> living]

Motion(path, k) == path[k].pos - path[k - 1].pos
Median(a, b, c) == a + b + c - Max({a, b, c}) - Min({a, b, c})

\* The mean motion of three frames, then the median of the last three motions
Speed(path) ==
    LET n == Len(path)
    IN IF n = 3 THEN (path[3].pos - path[1].pos) \div 2
       ELSE Median(Motion(path, n), Motion(path, n - 1), Motion(path, n - 2))

Predicted(path) == Last(path).pos + Speed(path)

\* latestFramesAreAllInvalid(), with UseAvailableFrames
LatestInvalid(path, n) == \A k \in DOMAIN path : k > Len(path) - n => ~path[k].valid

\* findNearestBlob(): of two equally near the later, at a fallback the prediction
Nearest(blobs, path) ==
    CHOOSE b \in blobs : \A c \in blobs : \/ Distance(b, Predicted(path)) < Distance(c, Predicted(path))
                                          \/ Distance(b, Predicted(path)) = Distance(c, Predicted(path)) /\ c <= b

\* Mutant: a prediction counts as a measurement
MatchAnyway(blobs, path) == Extend(path, Info(IF blobs = {} THEN Predicted(path) ELSE Nearest(blobs, path), TRUE))

\* appendMatchedFrameAndUpdatePrediction(): the blobs are those that pass the gate.
Match(blobs, path) == Extend(path, IF blobs = {} THEN Info(Predicted(path), FALSE)
                                   ELSE Info(Nearest(blobs, path), TRUE))

Near(blobs, path, radius) == {b \in blobs : Distance(b, Predicted(path)) <= radius}

-----------------------------------------------------------------------------
(* Association of the last frames                                           *)

Before(c, d) == \E k \in DOMAIN c : c[k] < d[k] /\ \A j \in 1..(k - 1) : c[j] = d[j]

\* The chains of one blob of each of the last frames, in the order of the loops
Triples(f) == {<<a, b, c>> : a \in f[1], b \in f[2], c \in f[3]}
Quadruples(f) == {<<a, b, c, d>> : a \in f[1], b \in f[2], c \in f[3], d \in f[4]}
Chains3 == IF Len(fifo') < 3 THEN {} ELSE Triples(LastN(fifo', 3))
Chains4 == IF Len(fifo') < 4 THEN {} ELSE Quadruples(fifo')

InOrder(chains) == [i \in 1..Cardinality(chains) |->
                       CHOOSE c \in chains : Cardinality({d \in chains : Before(d, c)}) = i - 1]

Shares(c, d, n) == \E k \in 1..n : c[k] = d[k]

\* deduplicateInitialCandidates(): a chain that shares one of its first n blobs
\* with an earlier one, itself kept or not, is dropped.
Deduplicated(chains, n) == {c \in chains : \A d \in chains : Before(d, c) => ~Shares(d, c, n)}

Targets(chains, first) ==
    [i \in DOMAIN chains |->
        Target(first + i - 1, [k \in DOMAIN chains[i] |-> Info(chains[i][k], TRUE)], TRUE)]

Step(c, k) == c[k + 1] - c[k]

\* hypot() for the speed and one test for each axis for the consistency: one distance here
PassesLeo(c) == /\ Distance(Step(c, 1), 0) > SpdLowAe
                /\ Distance(Step(c, 2), Step(c, 1)) <= ThresholdAe

PassesSc(c) == /\ Distance(Step(c, 1), 0) < SearchRadius /\ c[2] \in FovCenter
               /\ Distance(Step(c, 2), Step(c, 1)) <= ThresholdMeo

\* A chain that comes back to an equatorial point is refused, if points have one.
PassesGeo(c) ==
    /\ \A k \in 1..3 : /\ Distance(Step(c, k), 0) < Min({AssociationRadius, SearchRadius})
                       /\ Step(c, k) \notin StarMotions
    /\ \A j, k \in 1..3 : (j = 1 \/ j = k - 1) => Distance(Step(c, k), Step(c, j)) <= MotionConsistency
    /\ Equatorial => IsInjective(c)

-----------------------------------------------------------------------------
(* One frame                                                                *)

Arrives(blobs, n) == /\ age < MaxAge /\ age' = age + 1
                     /\ fifo' = LastN(Append(fifo, blobs), n)
                     /\ UNCHANGED <<mode, manual>>

\* track() of LEO and SC without a target
Find(blobs, m, candidates) ==
    /\ mode = m /\ ~found
    /\ Arrives(blobs, 3)
    /\ targets' = Targets(candidates, 1)
    /\ found' = (targets' # <<>>)
    /\ UNCHANGED <<verified, nextId>>

LeoFind(blobs) ==
    Find(blobs, "leo", IF Cardinality(blobs) < MaxLeoBlobs THEN InOrder({c \in Chains3 : PassesLeo(c)}) ELSE <<>>)

ScFind(blobs) == Find(blobs, "sc", InOrder(Deduplicated({c \in Chains3 : PassesSc(c)}, 3)))

Forget == targets' = <<>> /\ found' = FALSE /\ verified' = FALSE

Selected(t) == targets' = <<t>> /\ verified' = TRUE /\ UNCHANGED found

\* hasConsistentRecentAeMotion(): all six comparisons are strict.
Consistent(path) ==
    /\ \A k \in 1..4 : path[k].valid
    /\ \A j, k \in 2..4 : Distance(Motion(path, j), Motion(path, k)) < ThresholdAe

NoTarget == Target(0, <<>>, FALSE)

Pace(path) == Distance(Speed(path), 0)

\* selectFastestAeTarget(), among those with the given indices: the first of the
\* fastest; a speed of zero is no speed.
Fastest(ts, indices) ==
    LET best == {i \in indices : /\ Pace(ts[i].path) > 0
                                 /\ \A j \in indices : Pace(ts[i].path) >= Pace(ts[j].path)}
    IN IF best = {} THEN NoTarget ELSE ts[Min(best)]

LeoVerify(blobs) ==
    /\ mode = "leo" /\ found /\ ~verified
    /\ Arrives(blobs, 3)
    /\ LET Seen(t) == [t EXCEPT !.path = Match(Near(blobs, t.path, ThresholdAe), t.path)]
           seen == [i \in DOMAIN targets |-> Seen(targets[i])]
           living == {i \in DOMAIN targets : Consistent(seen[i].path)}
       IN IF living = {} THEN Forget ELSE Selected(Fastest(seen, living))
    /\ UNCHANGED nextId

\* The validity rule lets candidates live that were not seen in this frame, but
\* none of them is selected.
ScVerify(blobs) ==
    /\ mode = "sc" /\ found /\ ~verified
    /\ Arrives(blobs, 3)
    /\ LET Gate(t) == Near(blobs, t.path, ThresholdMeo)
           seen == {t \in Range(targets) : Gate(t) # {}}
       IN \/ seen = {} /\ Forget
          \/ \E t \in seen : Selected([t EXCEPT !.path = Match(Gate(t), t.path)])
    /\ UNCHANGED nextId

\* Mutant: one miss too many
KeepLeoLonger(path) == ~LatestInvalid(path, LeoWindow + 1)

\* The window of the code is that of a full history: four infos were valid before.
KeepLeo(path) == ~LatestInvalid(path, LeoWindow)
KeepSc(path) == Last(path).valid

\* The target is sought among those blobs of the frame that may be used.
TrackOne(blobs, used, m, radius) ==
    /\ mode = m /\ found /\ verified
    /\ Arrives(blobs, 3)
    /\ LET t == targets[1]
           path == Match(Near(used, t.path, radius), t.path)
           Kept(p) == IF m = "leo" THEN KeepLeo(p) ELSE KeepSc(p)
       IN IF t.living /\ Kept(path) THEN Selected([t EXCEPT !.path = path]) ELSE Forget
    /\ UNCHANGED nextId

LeoTrack(blobs) == TrackOne(blobs, blobs, "leo", ThresholdAe)
ScTrack(blobs) == TrackOne(blobs, blobs \cap FovCenter, "sc", ThresholdMeo)

\* Mutant: the ids start again when all targets are lost
GeoFindRestarts(blobs) ==
    /\ mode = "geo" /\ ~found
    /\ Arrives(blobs, 4)
    /\ targets' = Targets(InOrder(Deduplicated({c \in Chains4 : PassesGeo(c)}, 3)), 1)
    /\ nextId' = 1 + Len(targets')
    /\ found' = (targets' # <<>>) /\ verified' = found'

GeoFind(blobs) ==
    /\ mode = "geo" /\ ~found
    /\ Arrives(blobs, 4)
    /\ targets' = Targets(InOrder(Deduplicated({c \in Chains4 : PassesGeo(c)}, 3)), nextId)
    /\ nextId' = nextId + Len(targets')
    /\ found' = (targets' # <<>>) /\ verified' = found'

InBounds(p) == 0 < p /\ p < Width

RepeatsPoint(path) ==
    LET n == Len(path)
    IN Equatorial /\ path[n].valid /\ path[n - 1].valid /\ path[n].pos = path[n - 1].pos

\* The gate of findNearestTrackedBlob() opens with the misses.  The error of the
\* speed is the distance from the prediction.  The gate of azimuth and elevation
\* stays as it is, and there is none with a threshold of 0.
Gate(blobs, path) ==
    LET misses == Cardinality({k \in DOMAIN path : k > Len(path) - SearchWindow /\ ~path[k].valid})
        radius == SearchRadius + Min({misses, RadiusLimit}) * RadiusStep
    IN {b \in Near(blobs, path, radius) :
           /\ Distance(b, Predicted(path)) < SpeedError + misses
           /\ ThresholdAe > 0 => Distance(b, Predicted(path)) <= ThresholdAe}

\* Mutant: the blobs matched before are not excluded
GeoMatchAll(done, t, blobs) ==
    LET near == Gate(blobs, t.path)
        path == Match(near, t.path)
    IN IF ~t.living THEN Append(done, t)
       ELSE Append(done, Target(t.id, path, /\ InBounds(Predicted(path))
                                            /\ ~LatestInvalid(path, NumFramesLiving)
                                            /\ ~RepeatsPoint(path)))

\* The blobs of this frame that the targets before have used
Taken(done) == {Last(done[i].path).pos :
                    i \in {i \in DOMAIN done : targets[i].living /\ Last(done[i].path).valid}}

\* The nearest of the other blobs that pass the gate
Unused(done, t, blobs) ==
    LET near == Gate(blobs \ Taken(done), t.path)
        nearest == {b \in near : \A c \in near : Distance(b, Predicted(t.path)) <= Distance(c, Predicted(t.path))}
    IN IF near = {} THEN {} ELSE {Min(nearest)}

\* One target of trackTargets(): done are those before it.
GeoMatch(done, t, blobs) ==
    LET path == Match(Unused(done, t, blobs), t.path)
    IN IF ~t.living THEN Append(done, t)
       ELSE Append(done, Target(t.id, path, /\ InBounds(Predicted(path))
                                            /\ ~LatestInvalid(path, NumFramesLiving)
                                            /\ ~RepeatsPoint(path)))

\* Mutant: lost targets count, too
OverlapsAny(c, ts) == \E t \in Range(ts) : \E k \in 1..4 : LastN(t.path, 4)[k].pos = c[k]

\* overlapsAnyLivingTarget(): a living target has an info of every frame.
Overlaps(c, ts) == \E t \in Range(ts) : t.living /\ \E k \in 1..4 : LastN(t.path, 4)[k].pos = c[k]

ChainPath(c) == [k \in DOMAIN c |-> Info(c[k], TRUE)]

\* refindTargets(): in Frame space no association is above the speed limit.
Rediscovered(blobs, tracked) ==
    IF age' < 5 \/ Cardinality(blobs) >= MaxRediscoveryBlobs THEN <<>>
    ELSE InOrder({c \in Deduplicated({d \in Chains4 : PassesGeo(d)}, 3) :
                     ~Overlaps(c, tracked) /\ InBounds(Predicted(ChainPath(c)))})

\* trackTargets(): one target after the other
Tracked(blobs) ==
    LET done[n \in 0..Len(targets)] ==
            IF n = 0 THEN <<>> ELSE GeoMatch(done[n - 1], targets[n], blobs)
    IN  done[Len(targets)]

\* A target that is lost stays in the list until all of them are.
GeoTrack(blobs) ==
    /\ mode = "geo" /\ found
    /\ Arrives(blobs, 4)
    /\ LET tracked == Tracked(blobs)
           new == Rediscovered(blobs, tracked)
       IN /\ targets' = tracked \o Targets(new, nextId)
          /\ nextId' = nextId + Len(new)
    /\ found' = (\E t \in Range(targets') : t.living) /\ verified' = found'

\* Manual: the chosen point is measured in every frame, whatever it shows.
ManualTrack ==
    /\ mode = "manual"
    /\ LET path == IF targets = <<>> THEN <<>> ELSE targets[1].path
       IN targets' = IF manual = None THEN <<>>
                     ELSE <<Target(0, Extend(path, Info(manual, TRUE)), TRUE)>>
    /\ UNCHANGED <<mode, fifo, age, found, verified, nextId, manual>>

Track(blobs) == \/ LeoFind(blobs) \/ LeoVerify(blobs) \/ LeoTrack(blobs)
                \/ ScFind(blobs) \/ ScVerify(blobs) \/ ScTrack(blobs)
                \/ GeoFind(blobs) \/ GeoTrack(blobs) \/ ManualTrack

-----------------------------------------------------------------------------
(* TrackManager and the strategy it holds                                   *)

\* setMode() makes a new strategy, of the same mode too.
SetMode(m) == Fresh(m) /\ manual' = None

Reset == mode # "init" /\ Fresh(mode) /\ manual' = None

SetManualTarget(p) == /\ mode = "manual" /\ manual' = p
                      /\ UNCHANGED <<mode, fifo, age, targets, found, verified, nextId>>

TrackersNext == \/ \E blobs \in Views : Track(blobs)
                \/ \E m \in Modes : SetMode(m)
                \/ Reset
                \/ \E p \in Clicks : SetManualTarget(p)

TrackersSpec == TrackersInit /\ [][TrackersNext]_trackersVars
-----------------------------------------------------------------------------
(* Properties                                                               *)

\* Type invariant
TrackersTypeOK ==
    /\ mode \in Modes /\ fifo \in Seq(Views) /\ Len(fifo) <= 4 /\ age \in 0..MaxAge
    /\ \A t \in Range(targets) :
           /\ t.id \in Nat /\ t.living \in BOOLEAN
           /\ t.path \in Seq([pos : Int, valid : BOOLEAN]) /\ Len(t.path) <= History
    /\ {found, verified} \subseteq BOOLEAN /\ nextId \in Nat \ {0}
    /\ manual \in Clicks \cup {None}

\* What a strategy has found are targets that live (include/dss/tracking/leo_tracker.h,
\* "当前活跃目标列表").  Not so: when every verified candidate of LEO has speed zero,
\* selectFastestAeTarget() returns an empty target, and LEO follows that.
StageMatchesTargets ==
    mode \in {"leo", "sc", "geo"} => (found <=> \E t \in Range(targets) : t.living)

\* What is true of every limit: a target is let live only by a strategy that counts it
\* as found; SC and GEO never hold on to dead ones, LEO only to the empty one that it
\* selected; and LEO and SC, once verified, are bound to one target.
StageBindsTargets ==
    /\ mode \in {"leo", "sc", "geo"} =>
           /\ (\E t \in Range(targets) : t.living) => found
           /\ found => \/ \E t \in Range(targets) : t.living
                       \/ mode = "leo" /\ verified /\ targets = <<NoTarget>>
    /\ verified => found
    /\ (mode \in {"leo", "sc"} /\ verified) => Len(targets) = 1

\* A target that lives was measured in one of the last frames: it is released
\* after as many misses as its strategy allows, SC at once.
LivingWasSeen ==
    \A t \in Range(targets) :
        t.living => ~LatestInvalid(t.path, CASE mode = "geo" -> NumFramesLiving
                                             [] mode = "leo" -> LeoWindow
                                             [] OTHER -> 1)

\* A strategy's stage, its list and the age of its targets agree.
TargetsInv == TrackersTypeOK /\ StageBindsTargets /\ LivingWasSeen

\* What a living target says it measured was in that frame: no prediction passes
\* for a measurement, none is of the time before a reset, and none is of a frame
\* that another target saw.
MeasurementsAreReal ==
    mode \in {"leo", "sc", "geo"} =>
        \A t \in Range(targets) : t.living =>
            \A k \in DOMAIN fifo :
                LET i == Len(t.path) - Len(fifo) + k
                IN (i \in DOMAIN t.path /\ t.path[i].valid) => t.path[i].pos \in fifo[k]

NoSharedBlob ==
    \A i, j \in DOMAIN targets :
        (mode' = "geo" /\ i < j /\ j <= Len(targets') /\ targets'[i].id = targets[i].id)
            => ~(/\ targets'[i].living /\ targets'[j].living
                 /\ targets'[i].path # targets[i].path
                 /\ Last(targets'[i].path) = Last(targets'[j].path) /\ Last(targets'[i].path).valid)

\* Two GEO targets do not follow one object: of those that were there before, no
\* two living ones take the same blob of a frame.
OneMeasurementEach == [][NoSharedBlob]_trackersVars

IdsGoOn ==
    (mode = "geo" /\ mode' = "geo" /\ age' > 0) =>
        \A t \in Range(targets') :
            \/ t.id >= nextId /\ t.living
            \/ t \in Range(targets) /\ ~t.living
            \/ \E s \in Range(targets) : /\ s.id = t.id /\ s.living
                                         /\ t.path = Extend(s.path, Last(t.path))

\* An id of GEO names one object: a target goes on from the target that had its id,
\* and one that is lost never comes back under it.
IdNamesOneTarget == [][IdsGoOn]_trackersVars

\* An object that crosses nobody's path is found by GEO in four frames, also while
\* others are tracked and after its own target was lost.
IsolatedObjectFound ==
    (mode = "geo" /\ Len(fifo) = 4 /\ Cardinality(fifo[4]) < MaxRediscoveryBlobs) =>
        LET chains == {c \in Quadruples(fifo) : PassesGeo(c)}
        IN \A c \in chains :
               (InBounds(Predicted(ChainPath(c))) /\ \A d \in chains \ {c} : ~Shares(c, d, 3))
                   => \E t \in Range(targets) :
                          t.living /\ \E k \in 1..4 : LastN(t.path, 4)[k].pos = c[k]

\* What a strategy returns are targets it still follows (docs/module-tracking.md,
\* "输出存活目标").  Not so: GEO returns its lost targets, too, while one lives.  (With
\* limits that let LEO select its empty target that is another counterexample.)
OutputIsLiving == \A t \in Range(targets) : t.living

=============================================================================
