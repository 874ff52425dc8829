----------------------- MODULE CameraCatalogueProofs ------------------------
(***************************************************************************)
(* Proofs about CameraCatalogue, for any number of connectors, VMSs,       *)
(* cameras, streams and monitors: the rows are linked, marked and numbered *)
(* as the server needs them, in whatever order pages are used and wherever *)
(* the conversation with a VMS fails.                                      *)
(***************************************************************************)
EXTENDS CameraCatalogue, FiniteSetTheorems, SequenceTheorems, TLAPS

-----------------------------------------------------------------------------
(***************************************************************************)
(* The inductive invariant.                                                *)
(***************************************************************************)

\* Every reference is to a row, but for the streams added too late.
Linked ==
  /\ \A v \in Rows(vmses) : vmses[v].connector \in Rows(connectors)
  /\ \A c \in Rows(cameras) : cameras[c].vms \in Rows(vmses)
  /\ \A s \in Rows(streams) : ~ streams[s].stale => streams[s].camera \in Rows(cameras)

UsedAreThere == uses \subseteq Rows(streams)

IInv ==
  /\ TypeOK /\ UsedAreThere /\ Linked
  /\ OneDirectCamera /\ VerifiedUnderVerified /\ OneCameraPerMonitor

\* What a step does to the streams in use.
Kept == \A s \in uses : streams'[s] # None

-----------------------------------------------------------------------------
(***************************************************************************)
(* Sequences of the elements of sets.                                      *)
(***************************************************************************)

\* SetToSeq lists a finite set.
LEMMA SetToSeqLists ==
  ASSUME NEW S, IsFiniteSet(S)
  PROVE  /\ SetToSeq(S) \in Seq(S) /\ SetToSeq(S) \in [1 .. Len(SetToSeq(S)) -> S]
         /\ \A i, j \in 1 .. Len(SetToSeq(S)) : SetToSeq(S)[i] = SetToSeq(S)[j] => i = j
         /\ S # {} => SetToSeq(S) # <<>>
<1>1. Cardinality(S) \in Nat /\ ExistsBijection(1 .. Cardinality(S), S)
  BY FS_CardinalityType
<1>2. \E f \in [1 .. Cardinality(S) -> S] : IsInjective(f)
  BY <1>1 DEF ExistsBijection, Bijection, Injection
<1>3. SetToSeq(S) \in [1 .. Cardinality(S) -> S] /\ IsInjective(SetToSeq(S))
  BY <1>2 DEF SetToSeq
<1>4. SetToSeq(S) \in Seq(S)
  BY <1>1, <1>3
<1>5. Len(SetToSeq(S)) = Cardinality(S)
  BY <1>1, <1>3, <1>4
<1>6. S # {} => Cardinality(S) # 0
  BY FS_EmptySet
<1>7. QED
  BY <1>3, <1>4, <1>5, <1>6 DEF IsInjective

\* A list of monitors names each once.
LEMMA ListsAre ==
  ASSUME NEW list \in Lists
  PROVE  /\ list \in Seq(Monitors) /\ Len(list) \in Nat /\ list \in [1 .. Len(list) -> Monitors]
         /\ \A i, j \in 1 .. Len(list) : list[i] = list[j] => i = j
<1>1. PICK found \in SUBSET Monitors : list \in SetToSeqs(found)
  BY DEF Lists
<1>2. IsFiniteSet(found) /\ Cardinality(found) \in Nat
  BY FS_Subset, FS_CardinalityType, CatalogueAssumption
<1>3. /\ list \in [1 .. Cardinality(found) -> found]
      /\ \A i, j \in 1 .. Cardinality(found) : i # j => list[i] # list[j]
  BY <1>1 DEF SetToSeqs
<1>4. list \in Seq(Monitors) /\ Len(list) = Cardinality(found)
  BY <1>2, <1>3
<1>5. QED
  BY <1>2, <1>3, <1>4

-----------------------------------------------------------------------------
(***************************************************************************)
(* Tables: what With, Ended and Marked do to rows.                         *)
(***************************************************************************)

\* New rows for the table, and free places for them.
Fit(T, R, table, ids, new) ==
  /\ None \notin R /\ table \in [T -> R \cup {None}] /\ new \in Seq(R)
  /\ ids \in Seq(T \ Rows(table)) /\ Len(new) <= Len(ids)
  /\ \A i, j \in 1 .. Len(ids) : ids[i] = ids[j] => i = j

\* w is the table with the new rows in their places.
Filled(T, R, table, ids, new, w) ==
  /\ w \in [T -> R \cup {None}]
  /\ \A t \in Rows(table) : w[t] = table[t]
  /\ Rows(table) \subseteq Rows(w)
  /\ \A n \in DOMAIN new : ids[n] \in Rows(w)
  /\ \A t \in Rows(w) \ Rows(table) : \E n \in DOMAIN new : t = ids[n] /\ w[t] = new[n]

\* With fills free places with the new rows, and leaves the others.
LEMMA WithRows ==
  ASSUME NEW T, NEW R, NEW table, NEW ids, NEW new, Fit(T, R, table, ids, new)
  PROVE  Filled(T, R, table, ids, new, With(table, ids, new))
<1> DEFINE w == With(table, ids, new)
<1> USE DEF Fit
<1>1. DOMAIN new = 1 .. Len(new) /\ \A n \in DOMAIN new : n \in 1 .. Len(ids) /\ new[n] \in R
  OBVIOUS
<1>2. \A n \in DOMAIN new : ids[n] \in T \ Rows(table)
  BY <1>1
<1>3. DOMAIN table = T /\ w = [t \in T |->
           IF \E n \in DOMAIN new : ids[n] = t
           THEN new[CHOOSE n \in DOMAIN new : ids[n] = t] ELSE table[t]]
  BY DEF With
<1>4. ASSUME NEW n \in DOMAIN new
      PROVE  ids[n] \in T /\ w[ids[n]] = new[n] /\ new[n] \in R
  <2>1. (CHOOSE m \in DOMAIN new : ids[m] = ids[n]) = n
    BY <1>1
  <2>2. QED
    BY <2>1, <1>1, <1>2, <1>3
<1>5. ASSUME NEW t \in T, \A n \in DOMAIN new : ids[n] # t
      PROVE  w[t] = table[t]
  BY <1>3, <1>5
<1>6. w \in [T -> R \cup {None}]
  <2>1. ASSUME NEW t \in T PROVE w[t] \in R \cup {None}
    BY <1>4, <1>5
  <2>2. QED
    BY <2>1, <1>3
<1>7. Rows(w) = {t \in T : w[t] # None} /\ Rows(table) = {t \in T : table[t] # None}
  BY <1>3 DEF Rows
<1>8. \A t \in Rows(table) : w[t] = table[t]
  BY <1>2, <1>5, <1>7
<1>9. \A n \in DOMAIN new : ids[n] \in Rows(w)
  BY <1>4, <1>7
<1>10. \A t \in Rows(w) \ Rows(table) : \E n \in DOMAIN new : t = ids[n] /\ w[t] = new[n]
  BY <1>4, <1>5, <1>7
<1> QED
  BY <1>6, <1>7, <1>8, <1>9, <1>10 DEF Filled

\* Marked changes the mark of some rows, and nothing else.
LEMMA MarkedVms ==
  ASSUME NEW table \in [Vmses -> Vms \cup {None}], NEW S, NEW b \in BOOLEAN,
         S \subseteq Rows(table)
  PROVE  /\ Marked(table, S, b) \in [Vmses -> Vms \cup {None}]
         /\ Rows(Marked(table, S, b)) = Rows(table)
         /\ \A t \in Rows(table) :
              /\ Marked(table, S, b)[t].connector = table[t].connector
              /\ Marked(table, S, b)[t].type = table[t].type
              /\ t \in S => Marked(table, S, b)[t].verified = b
         /\ \A t \in Rows(table) \ S : Marked(table, S, b)[t] = table[t]
<1>1. \A t \in Rows(table) : t \in Vmses /\ table[t] \in Vms
  BY DEF Rows
<1>2. \A t \in Rows(table) : [table[t] EXCEPT !.verified = b] \in Vms
  BY <1>1 DEF Vms
<1>3. None \notin Vms
  BY CatalogueAssumption
<1>4. DOMAIN table = Vmses
  OBVIOUS
<1>5. \A t \in S : Marked(table, S, b)[t] = [table[t] EXCEPT !.verified = b]
  BY <1>1, <1>4 DEF Marked
<1>6. \A t \in Vmses \ S : Marked(table, S, b)[t] = table[t]
  BY <1>4 DEF Marked
<1>7. Marked(table, S, b) \in [Vmses -> Vms \cup {None}]
  BY <1>1, <1>2, <1>4 DEF Marked
<1>8. Rows(Marked(table, S, b)) = Rows(table)
  <2>1. \A t \in S : t \in Vmses /\ table[t] # None /\ Marked(table, S, b)[t] # None
    BY <1>1, <1>2, <1>3, <1>5
  <2>2. \A t \in Vmses : (Marked(table, S, b)[t] = None) = (table[t] = None)
    BY <2>1, <1>6
  <2>3. DOMAIN Marked(table, S, b) = Vmses
    BY <1>7
  <2>4. QED
    BY <2>2, <2>3, <1>4 DEF Rows
<1>9. \A t \in S : /\ Marked(table, S, b)[t].connector = table[t].connector
                   /\ Marked(table, S, b)[t].type = table[t].type
                   /\ Marked(table, S, b)[t].verified = b
  BY <1>1, <1>5 DEF Vms
<1>10. QED
  BY <1>1, <1>6, <1>7, <1>8, <1>9

\* m is the table of cameras with those of S not verified.
CamerasMarked(table, S, m) ==
  /\ m \in [Cameras -> Camera \cup {None}] /\ Rows(m) = Rows(table)
  /\ \A t \in Rows(table) : /\ m[t].vms = table[t].vms
                            /\ m[t].camera_id = table[t].camera_id
                            /\ t \in S => ~ m[t].verified
  /\ \A t \in Rows(table) \ S : m[t] = table[t]

\* The same for cameras.
LEMMA MarkedCameras ==
  ASSUME NEW table \in [Cameras -> Camera \cup {None}], NEW S, S \subseteq Rows(table)
  PROVE  CamerasMarked(table, S, Marked(table, S, FALSE))
<1>1. \A t \in Rows(table) : t \in Cameras /\ table[t] \in Camera
  BY DEF Rows
<1>2. \A t \in Rows(table) : [table[t] EXCEPT !.verified = FALSE] \in Camera
  BY <1>1 DEF Camera
<1>3. None \notin Camera
  BY CatalogueAssumption
<1>4. DOMAIN table = Cameras
  OBVIOUS
<1>5. \A t \in S : Marked(table, S, FALSE)[t] = [table[t] EXCEPT !.verified = FALSE]
  BY <1>1, <1>4 DEF Marked
<1>6. \A t \in Cameras \ S : Marked(table, S, FALSE)[t] = table[t]
  BY <1>4 DEF Marked
<1>7. Marked(table, S, FALSE) \in [Cameras -> Camera \cup {None}]
  BY <1>1, <1>2, <1>4 DEF Marked
<1>8. Rows(Marked(table, S, FALSE)) = Rows(table)
  <2>1. \A t \in S : t \in Cameras /\ table[t] # None /\ Marked(table, S, FALSE)[t] # None
    BY <1>1, <1>2, <1>3, <1>5
  <2>2. \A t \in Cameras : (Marked(table, S, FALSE)[t] = None) = (table[t] = None)
    BY <2>1, <1>6
  <2>3. DOMAIN Marked(table, S, FALSE) = Cameras
    BY <1>7
  <2>4. QED
    BY <2>2, <2>3, <1>4 DEF Rows
<1>9. \A t \in S : /\ Marked(table, S, FALSE)[t].vms = table[t].vms
                   /\ Marked(table, S, FALSE)[t].camera_id = table[t].camera_id
                   /\ ~ Marked(table, S, FALSE)[t].verified
  BY <1>1, <1>5 DEF Camera
<1>10. QED
  BY <1>1, <1>6, <1>7, <1>8, <1>9 DEF CamerasMarked

\* m is the table of streams but for marks.
StreamsMarked(table, m) ==
  /\ m \in [Streams -> Stream \cup {None}] /\ Rows(m) = Rows(table)
  /\ \A t \in Rows(table) : m[t].camera = table[t].camera /\ m[t].stale = table[t].stale

\* And for streams.
LEMMA MarkedStreams ==
  ASSUME NEW table \in [Streams -> Stream \cup {None}], NEW S, S \subseteq Rows(table),
         NEW b \in BOOLEAN
  PROVE  StreamsMarked(table, Marked(table, S, b))
<1>1. \A t \in Rows(table) : t \in Streams /\ table[t] \in Stream
  BY DEF Rows
<1>2. \A t \in Rows(table) : [table[t] EXCEPT !.verified = b] \in Stream
  BY <1>1 DEF Stream
<1>3. None \notin Stream
  BY CatalogueAssumption
<1>4. DOMAIN table = Streams
  OBVIOUS
<1>5. \A t \in S : Marked(table, S, b)[t] = [table[t] EXCEPT !.verified = b]
  BY <1>1, <1>4 DEF Marked
<1>6. \A t \in Streams \ S : Marked(table, S, b)[t] = table[t]
  BY <1>4 DEF Marked
<1>7. Marked(table, S, b) \in [Streams -> Stream \cup {None}]
  BY <1>1, <1>2, <1>4 DEF Marked
<1>8. Rows(Marked(table, S, b)) = Rows(table)
  <2>1. \A t \in S : t \in Streams /\ table[t] # None /\ Marked(table, S, b)[t] # None
    BY <1>1, <1>2, <1>3, <1>5
  <2>2. \A t \in Streams : (Marked(table, S, b)[t] = None) = (table[t] = None)
    BY <2>1, <1>6
  <2>3. DOMAIN Marked(table, S, b) = Streams
    BY <1>7
  <2>4. QED
    BY <2>2, <2>3, <1>4 DEF Rows
<1>9. \A t \in S : /\ Marked(table, S, b)[t].camera = table[t].camera
                   /\ Marked(table, S, b)[t].stale = table[t].stale
  BY <1>1, <1>5 DEF Stream
<1>10. QED
  BY <1>1, <1>6, <1>7, <1>8, <1>9 DEF StreamsMarked

-----------------------------------------------------------------------------
(***************************************************************************)
(* What a VMS adds: its own cameras, each monitor once, and streams of     *)
(* these, but for those that are stale.                                    *)
(***************************************************************************)

\* The cameras that a list of monitors makes, and the streams of a sequence of
\* cameras.
Listed(v, list, marks) == [i \in 1 .. Len(list) |-> NewCamera(v, list[i], marks[i])]
StreamsAt(n, at, marks, late) == [i \in 1 .. n |-> NewStream(at[i], marks[i], late[i])]

CamerasAreGood(v, cs) ==
  /\ cs \in Seq(Camera)
  /\ \A n \in DOMAIN cs : cs[n].vms = v
  /\ \A m, n \in DOMAIN cs : m # n => cs[m].camera_id # cs[n].camera_id

Good(v, ids, a) ==
  /\ CamerasAreGood(v, a.cameras) /\ Len(a.cameras) <= Len(ids)
  /\ a.streams \in Seq(Stream) /\ a.raised \in BOOLEAN
  /\ \A n \in DOMAIN a.streams :
       ~ a.streams[n].stale => \E m \in DOMAIN a.cameras : a.streams[n].camera = ids[m]

\* The cameras are the VMS's, one for each monitor.
LEMMA ListedCameras ==
  ASSUME NEW v \in Vmses, NEW list \in Lists, NEW marks \in [1 .. Len(list) -> BOOLEAN]
  PROVE  /\ CamerasAreGood(v, Listed(v, list, marks))
         /\ Len(Listed(v, list, marks)) = Len(list)
         /\ DOMAIN Listed(v, list, marks) = 1 .. Len(list)
<1> DEFINE cs == Listed(v, list, marks)
<1>1. Len(list) \in Nat /\ list \in [1 .. Len(list) -> Monitors]
  BY ListsAre
<1>2. \A i \in 1 .. Len(list) : NewCamera(v, list[i], marks[i]) \in Camera
  BY <1>1 DEF NewCamera, Camera
<1>3. cs \in Seq(Camera) /\ Len(cs) = Len(list) /\ DOMAIN cs = 1 .. Len(list)
  BY <1>1, <1>2 DEF Listed
<1>4. \A n \in DOMAIN cs : cs[n].vms = v /\ cs[n].camera_id = list[n]
  BY <1>3 DEF NewCamera, Listed
<1>5. \A i, j \in 1 .. Len(list) : list[i] = list[j] => i = j
  BY ListsAre
<1>6. QED
  BY <1>3, <1>4, <1>5 DEF CamerasAreGood

\* The streams are of those cameras.
LEMMA ListedStreams ==
  ASSUME NEW n \in Nat, NEW at \in [1 .. n -> Cameras], NEW marks \in [1 .. n -> BOOLEAN],
         NEW late \in [1 .. n -> BOOLEAN]
  PROVE  /\ StreamsAt(n, at, marks, late) \in Seq(Stream)
         /\ DOMAIN StreamsAt(n, at, marks, late) = 1 .. n
         /\ \A i \in 1 .. n : /\ StreamsAt(n, at, marks, late)[i].camera = at[i]
                              /\ StreamsAt(n, at, marks, late)[i].stale = late[i]
<1> DEFINE ss == StreamsAt(n, at, marks, late)
<1>1. \A i \in 1 .. n : NewStream(at[i], marks[i], late[i]) \in Stream
  BY DEF NewStream, Stream
<1>2. ss \in Seq(Stream) /\ DOMAIN ss = 1 .. n
  BY <1>1 DEF StreamsAt
<1>3. QED
  BY <1>2 DEF NewStream, StreamsAt

\* Milestone.
LEMMA MilestoneIsGood ==
  ASSUME NEW v \in Vmses, NEW ids \in Seq(Cameras), NEW list \in Fitting(ids),
         NEW grab \in [1 .. Len(list) -> BOOLEAN], NEW raised \in BOOLEAN,
         NEW verified \in [1 .. Len(list) -> BOOLEAN]
  PROVE  Good(v, ids, MilestoneAdds(v, ids, list, grab, verified, raised))
<1> DEFINE S == {i \in 1 .. Len(list) : grab[i]}
           streamed == SetToSeq(S)
           at == [i \in 1 .. Len(streamed) |-> ids[streamed[i]]]
           marks == [i \in 1 .. Len(streamed) |-> verified[streamed[i]]]
           late == [i \in 1 .. Len(streamed) |-> FALSE]
           cs == Listed(v, list, grab)
           ss == StreamsAt(Len(streamed), at, marks, late)
<1>1. list \in Lists /\ Len(list) <= Len(ids) /\ Len(list) \in Nat
  BY ListsAre DEF Fitting
<1>2. IsFiniteSet(S)
  <2>1. IsFiniteSet(1 .. Len(list)) /\ S \subseteq 1 .. Len(list)
    BY <1>1, FS_Interval
  <2>2. QED
    BY <2>1, FS_Subset
<1>3. streamed \in Seq(S) /\ streamed \in [1 .. Len(streamed) -> S] /\ Len(streamed) \in Nat
  <2> HIDE DEF S
  <2>1. streamed \in Seq(S) /\ streamed \in [1 .. Len(streamed) -> S]
    BY <1>2, SetToSeqLists
  <2> HIDE DEF streamed
  <2>2. QED
    BY <2>1
<1>4. \A i \in 1 .. Len(streamed) : streamed[i] \in 1 .. Len(list)
  BY <1>3
<1>5. \A i \in 1 .. Len(list) : ids[i] \in Cameras
  BY <1>1
<1>6. /\ at \in [1 .. Len(streamed) -> Cameras] /\ marks \in [1 .. Len(streamed) -> BOOLEAN]
      /\ late \in [1 .. Len(streamed) -> BOOLEAN]
  BY <1>4, <1>5
<1>8. /\ ss \in Seq(Stream) /\ DOMAIN ss = 1 .. Len(streamed)
      /\ \A i \in 1 .. Len(streamed) : ss[i].camera = at[i]
  <2>1. Len(streamed) \in Nat
    BY <1>3
  <2> HIDE DEF streamed, at, marks, late
  <2>2. QED
    BY <2>1, <1>6, ListedStreams
<1>9. CamerasAreGood(v, cs) /\ Len(cs) = Len(list) /\ DOMAIN cs = 1 .. Len(list)
  BY <1>1, ListedCameras
<1>10. \A n \in DOMAIN ss : \E m \in DOMAIN cs : ss[n].camera = ids[m]
  <2>1. \A n \in 1 .. Len(streamed) : ss[n].camera = ids[streamed[n]]
    <3> HIDE DEF ss
    <3>1. QED
      BY <1>8
  <2> HIDE DEF cs, ss, streamed
  <2>2. QED
    BY <2>1, <1>4, <1>8, <1>9
<1>11. MilestoneAdds(v, ids, list, grab, verified, raised)
         = [cameras |-> cs, streams |-> ss, raised |-> raised]
  <2>1. ss = [i \in 1 .. Len(streamed) |->
                NewStream(ids[streamed[i]], verified[streamed[i]], FALSE)]
    BY DEF StreamsAt
  <2>2. QED
    BY <2>1 DEF MilestoneAdds, Added, Listed
<1>12. QED
  <2> HIDE DEF cs, ss
  <2>1. QED
    BY <1>1, <1>8, <1>9, <1>10, <1>11 DEF Good

\* Hikvision.
LEMMA HikvisionIsGood ==
  ASSUME NEW v \in Vmses, NEW ids \in Seq(Cameras), NEW list \in Fitting(ids),
         NEW saved \in [1 .. Len(list) -> BOOLEAN], NEW raised \in BOOLEAN
  PROVE  Good(v, ids, HikvisionAdds(v, ids, list, saved, raised))
<1> DEFINE S == {i \in 1 .. Len(list) : saved[i]}
           streamed == SetToSeq(S)
           at == [i \in 1 .. Len(streamed) |-> ids[streamed[i]]]
           marks == [i \in 1 .. Len(streamed) |-> TRUE]
           late == [i \in 1 .. Len(streamed) |-> FALSE]
           grab == [i \in 1 .. Len(list) |-> TRUE]
           cs == Listed(v, list, grab)
           ss == StreamsAt(Len(streamed), at, marks, late)
<1>1. list \in Lists /\ Len(list) <= Len(ids) /\ Len(list) \in Nat
  BY ListsAre DEF Fitting
<1>2. IsFiniteSet(S)
  <2>1. IsFiniteSet(1 .. Len(list)) /\ S \subseteq 1 .. Len(list)
    BY <1>1, FS_Interval
  <2>2. QED
    BY <2>1, FS_Subset
<1>3. streamed \in Seq(S) /\ streamed \in [1 .. Len(streamed) -> S] /\ Len(streamed) \in Nat
  <2> HIDE DEF S
  <2>1. streamed \in Seq(S) /\ streamed \in [1 .. Len(streamed) -> S]
    BY <1>2, SetToSeqLists
  <2> HIDE DEF streamed
  <2>2. QED
    BY <2>1
<1>4. \A i \in 1 .. Len(streamed) : streamed[i] \in 1 .. Len(list)
  BY <1>3
<1>5. \A i \in 1 .. Len(list) : ids[i] \in Cameras
  BY <1>1
<1>6. /\ at \in [1 .. Len(streamed) -> Cameras] /\ marks \in [1 .. Len(streamed) -> BOOLEAN]
      /\ late \in [1 .. Len(streamed) -> BOOLEAN]
  BY <1>4, <1>5
<1>8. /\ ss \in Seq(Stream) /\ DOMAIN ss = 1 .. Len(streamed)
      /\ \A i \in 1 .. Len(streamed) : ss[i].camera = at[i]
  <2>1. Len(streamed) \in Nat
    BY <1>3
  <2> HIDE DEF streamed, at, marks, late
  <2>2. QED
    BY <2>1, <1>6, ListedStreams
<1>9. CamerasAreGood(v, cs) /\ Len(cs) = Len(list) /\ DOMAIN cs = 1 .. Len(list)
  <2>1. grab \in [1 .. Len(list) -> BOOLEAN]
    OBVIOUS
  <2> HIDE DEF grab
  <2>2. QED
    BY <1>1, <2>1, ListedCameras
<1>10. \A n \in DOMAIN ss : \E m \in DOMAIN cs : ss[n].camera = ids[m]
  <2>1. \A n \in 1 .. Len(streamed) : ss[n].camera = ids[streamed[n]]
    <3> HIDE DEF ss
    <3>1. QED
      BY <1>8
  <2> HIDE DEF cs, ss, streamed
  <2>2. QED
    BY <2>1, <1>4, <1>8, <1>9
<1>11. HikvisionAdds(v, ids, list, saved, raised)
         = [cameras |-> cs, streams |-> ss, raised |-> raised]
  <2>1. cs = [i \in 1 .. Len(list) |-> NewCamera(v, list[i], TRUE)]
    BY DEF Listed
  <2>2. ss = [i \in 1 .. Len(streamed) |-> NewStream(ids[streamed[i]], TRUE, FALSE)]
    BY DEF StreamsAt
  <2>3. QED
    BY <2>1, <2>2 DEF HikvisionAdds, Added
<1>12. QED
  <2> HIDE DEF cs, ss
  <2>1. QED
    BY <1>1, <1>8, <1>9, <1>10, <1>11 DEF Good

\* ZoneMinder: a stream is of a new camera or of a stale one.
LEMMA ZoneminderIsGood ==
  ASSUME NEW v \in Vmses, NEW ids \in Seq(Cameras), NEW list \in Fitting(ids),
         NEW stale \in SUBSET Cameras, NEW raised \in BOOLEAN,
         NEW n \in 0 .. Len(SelfCameras(ids, list, stale)),
         NEW verified \in [1 .. n -> BOOLEAN]
  PROVE  Good(v, ids, ZoneminderAdds(v, list, SelfCameras(ids, list, stale),
                                     stale, verified, raised))
<1> DEFINE first == SetToSeq(stale)
           then == SubSeq(ids, 1, Len(list))
           all == first \o then
           grab == [i \in 1 .. Len(list) |-> TRUE]
           at == [i \in 1 .. n |-> all[i]]
           late == [i \in 1 .. n |-> all[i] \in stale]
           cs == Listed(v, list, grab)
           ss == StreamsAt(n, at, verified, late)
<1>1. list \in Lists /\ Len(list) <= Len(ids) /\ Len(list) \in Nat
  BY ListsAre DEF Fitting
<1>2. first \in Seq(stale) /\ first \in [1 .. Len(first) -> stale] /\ Len(first) \in Nat
  <2>1. IsFiniteSet(stale)
    BY FS_Subset, CatalogueAssumption
  <2>2. QED
    BY <2>1, SetToSeqLists
<1>3. then \in Seq(Cameras) /\ Len(then) = Len(list)
      /\ \A i \in 1 .. Len(list) : then[i] = ids[i]
  BY <1>1
<1>4. /\ all \in Seq(Cameras) /\ Len(all) = Len(first) + Len(list)
      /\ \A i \in 1 .. Len(first) : all[i] = first[i]
      /\ \A i \in 1 .. Len(all) : i > Len(first) => all[i] = then[i - Len(first)]
  <2>1. first \in Seq(Cameras)
    BY <1>2
  <2>2. then \in Seq(Cameras) /\ Len(first) \in Nat /\ Len(then) = Len(list)
    BY <1>2, <1>3
  <2> HIDE DEF first, then
  <2>3. all \in Seq(Cameras) /\ Len(all) = Len(first) + Len(then)
    BY <2>1, <2>2, ConcatProperties
  <2>4. QED
    BY <1>1, <2>1, <2>2, <2>3
<1>5. n \in Nat /\ n <= Len(all) /\ \A i \in 1 .. n : i \in 1 .. Len(all)
  <2>1. n \in 0 .. Len(all)
    BY DEF SelfCameras
  <2> HIDE DEF all
  <2>2. QED
    BY <1>4, <2>1
<1>6. \A i \in 1 .. n : all[i] \in Cameras
  <2> HIDE DEF all
  <2>1. QED
    BY <1>4, <1>5
<1>7. at \in [1 .. n -> Cameras] /\ late \in [1 .. n -> BOOLEAN]
  <2> HIDE DEF all
  <2>1. QED
    BY <1>6
<1>9. /\ ss \in Seq(Stream) /\ DOMAIN ss = 1 .. n
      /\ \A i \in 1 .. n : ss[i].camera = at[i] /\ ss[i].stale = late[i]
  <2> HIDE DEF at, late
  <2>1. QED
    BY <1>5, <1>7, ListedStreams
<1>11. CamerasAreGood(v, cs) /\ Len(cs) = Len(list) /\ DOMAIN cs = 1 .. Len(list)
  <2>1. grab \in [1 .. Len(list) -> BOOLEAN]
    OBVIOUS
  <2> HIDE DEF grab
  <2>2. QED
    BY <1>1, <2>1, ListedCameras
<1>12. ASSUME NEW i \in 1 .. n, ~ late[i]
       PROVE  \E m \in 1 .. Len(list) : at[i] = ids[m]
  <2>1. at[i] = all[i] /\ all[i] \notin stale
    BY <1>12
  <2>2. i > Len(first)
    <3>1. i \in 1 .. Len(first) => all[i] \in stale
      <4> HIDE DEF all, first
      <4>1. QED
        BY <1>2, <1>4
    <3> HIDE DEF all, first
    <3>2. QED
      BY <1>2, <2>1, <3>1
  <2>3. i - Len(first) \in 1 .. Len(list) /\ all[i] = then[i - Len(first)]
    <3> HIDE DEF all, first, then
    <3>1. QED
      BY <1>1, <1>2, <1>4, <1>5, <2>2
  <2>4. QED
    <3> HIDE DEF all, first, then
    <3>1. QED
      BY <1>3, <2>1, <2>3
<1>13. \A i \in DOMAIN ss : ~ ss[i].stale => \E m \in DOMAIN cs : ss[i].camera = ids[m]
  <2>1. \A i \in 1 .. n : ~ late[i] => \E m \in 1 .. Len(list) : at[i] = ids[m]
    BY <1>12
  <2>2. \A i \in DOMAIN ss : i \in 1 .. n /\ ss[i].stale = late[i] /\ ss[i].camera = at[i]
    BY <1>9
  <2> HIDE DEF ss, cs, at, late
  <2>3. QED
    BY <1>11, <2>1, <2>2
<1>14. ZoneminderAdds(v, list, SelfCameras(ids, list, stale), stale, verified, raised)
         = [cameras |-> cs, streams |-> ss, raised |-> raised]
  <2>1. cs = [i \in 1 .. Len(list) |-> NewCamera(v, list[i], TRUE)]
    BY DEF Listed
  <2>2. ss = [i \in DOMAIN verified |-> NewStream(all[i], verified[i], all[i] \in stale)]
    <3> HIDE DEF all
    <3>1. QED
      BY DEF StreamsAt
  <2>3. all = SelfCameras(ids, list, stale)
    BY DEF SelfCameras
  <2> HIDE DEF all, cs, ss
  <2>4. QED
    BY <2>1, <2>2, <2>3 DEF ZoneminderAdds, Added
<1>15. QED
  <2> HIDE DEF cs, ss
  <2>1. QED
    BY <1>1, <1>9, <1>11, <1>13, <1>14 DEF Good

\* And nothing.
LEMMA NothingIsGood ==
  ASSUME NEW v \in Vmses, NEW ids \in Seq(Cameras),
         NEW a, a.cameras = <<>>, a.streams = <<>>, a.raised = FALSE
  PROVE  Good(v, ids, a)
<1>1. Len(a.cameras) <= Len(ids)
  OBVIOUS
<1>2. CamerasAreGood(v, a.cameras)
  BY DEF CamerasAreGood
<1>3. a.streams \in Seq(Stream) /\ DOMAIN a.streams = {}
  OBVIOUS
<1>4. a.raised \in BOOLEAN
  OBVIOUS
<1>5. QED
  BY <1>1, <1>2, <1>3, <1>4 DEF Good

\* All of them.
LEMMA AdditionsAreGood ==
  ASSUME NEW v \in Vmses, NEW ids \in Seq(Cameras), NEW stale \in SUBSET Cameras,
         NEW type \in Types, NEW a \in AddCameras(v, type, ids, stale)
  PROVE  Good(v, ids, a)
<1>1. CASE type = "milestone"
  <2>1. a \in MilestoneAddCameras(v, ids)
    BY <1>1 DEF AddCameras
  <2>2. PICK list \in Fitting(ids) : \E grab \in [1 .. Len(list) -> BOOLEAN] :
          a \in MilestoneAddsAll(v, ids, list, grab)
    BY <2>1 DEF MilestoneAddCameras
  <2>3. PICK grab \in [1 .. Len(list) -> BOOLEAN] : a \in MilestoneAddsAll(v, ids, list, grab)
    BY <2>2
  <2>4. CASE \E raised \in BOOLEAN : a = MilestoneAdds(v, ids, list, grab, grab, raised)
    BY <2>4, MilestoneIsGood
  <2>5. CASE \E i \in {i \in {Len(list)} \ {0} : grab[i]} :
               a = MilestoneAdds(v, ids, list, grab, [grab EXCEPT ![i] = FALSE], TRUE)
    <3>1. PICK i \in {i \in {Len(list)} \ {0} : grab[i]} :
            a = MilestoneAdds(v, ids, list, grab, [grab EXCEPT ![i] = FALSE], TRUE)
      BY <2>5
    <3>2. [grab EXCEPT ![i] = FALSE] \in [1 .. Len(list) -> BOOLEAN]
      OBVIOUS
    <3>3. QED
      BY <3>1, <3>2, MilestoneIsGood
  <2>6. QED
    BY <2>3, <2>4, <2>5 DEF MilestoneAddsAll
<1>2. CASE type = "zoneminder"
  <2>1. a \in ZoneminderAdd(v, ids, stale)
    BY <1>2 DEF AddCameras
  <2>2. CASE a = Added(<<>>, <<>>, FALSE)
    <3>1. a.cameras = <<>> /\ a.streams = <<>> /\ a.raised = FALSE
      BY <2>2 DEF Added
    <3>2. QED
      BY <3>1, NothingIsGood
  <2>3. CASE a # Added(<<>>, <<>>, FALSE)
    <3>1. \E A \in {UNION {ZoneminderAddsSome(v, list, SelfCameras(ids, list, stale), stale, n) :
                           n \in 0 .. Len(SelfCameras(ids, list, stale))} :
                      list \in Fitting(ids)} : a \in A
      BY <2>1, <2>3, Zenon DEF ZoneminderAdd
    <3>2. PICK list \in Fitting(ids) : \E n \in 0 .. Len(SelfCameras(ids, list, stale)) :
            a \in ZoneminderAddsSome(v, list, SelfCameras(ids, list, stale), stale, n)
      BY <3>1
    <3>3. PICK n \in 0 .. Len(SelfCameras(ids, list, stale)) :
            a \in ZoneminderAddsSome(v, list, SelfCameras(ids, list, stale), stale, n)
      BY <3>2
    <3>4. \E verified \in [1 .. n -> BOOLEAN], raised \in BOOLEAN :
            a = ZoneminderAdds(v, list, SelfCameras(ids, list, stale), stale, verified, raised)
      BY <3>3 DEF ZoneminderAddsSome, Raised
    <3>5. QED
      BY <3>4, ZoneminderIsGood
  <2>4. QED
    BY <2>2, <2>3
<1>3. CASE type = "hikvision"
  <2>1. a \in HikvisionAddMonitors(v, ids)
    BY <1>3 DEF AddCameras
  <2>2. PICK list \in Fitting(ids) : a \in HikvisionAddsAll(v, ids, list)
    BY <2>1 DEF HikvisionAddMonitors
  <2>3. \E saved \in [1 .. Len(list) -> BOOLEAN], raised \in BOOLEAN :
          a = HikvisionAdds(v, ids, list, saved, raised)
    BY <2>2 DEF HikvisionAddsAll
  <2>4. QED
    BY <2>3, HikvisionIsGood
<1>4. CASE type = "NA"
  <2>1. a = Added(<<>>, <<>>, FALSE)
    BY <1>4 DEF AddCameras
  <2>2. a.cameras = <<>> /\ a.streams = <<>> /\ a.raised = FALSE
    BY <2>1 DEF Added
  <2>3. QED
    BY <2>2, NothingIsGood
<1>5. QED
  BY <1>1, <1>2, <1>3, <1>4 DEF Types

-----------------------------------------------------------------------------
(***************************************************************************)
(* Most requests change one VMS and what hangs on it.  Rebuilt(v): the rest*)
(* is as it was, and v itself, its cameras and the streams are right       *)
(* afterwards.                                                             *)
(***************************************************************************)

LocallyRight(v) ==
  LET k == connectors[vmses'[v].connector]
      own == {c \in Rows(cameras') : cameras'[c].vms = v}
  IN /\ \A c \in own : cameras'[c].verified /\ ~ vmses'[v].retyped => vmses'[v].verified
     /\ \A c, d \in own : c # d /\ cameras'[c].camera_id # ByHand
                            => cameras'[c].camera_id # cameras'[d].camera_id
     /\ k.direct /\ ~ vmses'[v].retyped => \A c, d \in own : c = d

Rebuilt(v) ==
  /\ vmses' \in [Vmses -> Vms \cup {None}] /\ cameras' \in [Cameras -> Camera \cup {None}]
  /\ streams' \in [Streams -> Stream \cup {None}] /\ connectors' = connectors
  /\ v \in Rows(vmses') /\ vmses'[v].connector \in Rows(connectors)
  /\ \A w \in Vmses \ {v} : vmses'[w] = vmses[w]
  /\ \A c \in Rows(cameras) : cameras[c].vms # v => cameras'[c] = cameras[c]
  /\ \A c \in Rows(cameras') : cameras'[c].vms # v => cameras'[c] = cameras[c]
  /\ LocallyRight(v)
  /\ \A s \in Rows(streams') : ~ streams'[s].stale => streams'[s].camera \in Rows(cameras')
  /\ uses' \subseteq uses /\ uses \subseteq Rows(streams')

\* Such a step keeps the invariant, and what is in use.
LEMMA RebuiltKeeps ==
  ASSUME IInv, NEW v \in Vmses, Rebuilt(v)
  PROVE  IInv' /\ Kept
<1>1. TypeOK /\ UsedAreThere /\ Linked /\ OneDirectCamera /\ VerifiedUnderVerified
      /\ OneCameraPerMonitor
  BY DEF IInv
<1>2. /\ vmses' \in [Vmses -> Vms \cup {None}] /\ cameras' \in [Cameras -> Camera \cup {None}]
      /\ streams' \in [Streams -> Stream \cup {None}] /\ connectors' = connectors
      /\ uses' \subseteq uses /\ uses \subseteq Rows(streams')
  BY DEF Rebuilt
<1>3. TypeOK'
  BY <1>1, <1>2 DEF TypeOK
<1>4. UsedAreThere' /\ Kept
  <2>1. \A s \in Rows(streams') : streams'[s] # None
    BY DEF Rows
  <2>2. QED
    BY <1>2, <2>1 DEF UsedAreThere, Kept
<1>5. ASSUME NEW w \in Rows(vmses')
      PROVE  /\ w \in Vmses /\ vmses'[w].connector \in Rows(connectors)
             /\ w # v => w \in Rows(vmses) /\ vmses'[w] = vmses[w]
  <2>1. w \in Vmses /\ vmses'[w] # None
    BY <1>2 DEF Rows
  <2>2. w # v => vmses'[w] = vmses[w] /\ w \in Rows(vmses)
    BY <2>1, <1>1 DEF Rebuilt, Rows, TypeOK
  <2>3. QED
    BY <1>1, <2>1, <2>2 DEF Rebuilt, Linked
<1>6. ASSUME NEW c \in Rows(cameras'), cameras'[c].vms # v
      PROVE  c \in Rows(cameras) /\ cameras'[c] = cameras[c]
  <2>1. c \in Cameras /\ cameras'[c] # None /\ cameras'[c] = cameras[c]
    BY <1>2, <1>6 DEF Rebuilt, Rows
  <2>2. QED
    BY <1>1, <2>1 DEF Rows, TypeOK
<1>7. \A w \in Rows(vmses) : w \in Rows(vmses')
  <2>1. TAKE w \in Rows(vmses)
  <2>2. w \in Vmses /\ vmses[w] # None
    BY <1>1 DEF Rows, TypeOK
  <2>3. w # v => w \in Rows(vmses')
    BY <1>2, <2>2 DEF Rebuilt, Rows
  <2>4. QED
    BY <2>3 DEF Rebuilt
<1>8. Linked'
  <2>1. \A w \in Rows(vmses') : vmses'[w].connector \in Rows(connectors')
    BY <1>2, <1>5
  <2>2. \A c \in Rows(cameras') : cameras'[c].vms \in Rows(vmses')
    <3>1. TAKE c \in Rows(cameras')
    <3>2. CASE cameras'[c].vms = v
      BY <3>2 DEF Rebuilt
    <3>3. CASE cameras'[c].vms # v
      BY <1>1, <1>6, <1>7, <3>3 DEF Linked
    <3>4. QED
      BY <3>2, <3>3
  <2>3. QED
    BY <2>1, <2>2 DEF Linked, Rebuilt
<1> DEFINE k == connectors[vmses'[v].connector]
           own == {c \in Rows(cameras') : cameras'[c].vms = v}
<1>9. /\ \A c \in own : cameras'[c].verified /\ ~ vmses'[v].retyped => vmses'[v].verified
      /\ \A c, d \in own : c # d /\ cameras'[c].camera_id # ByHand
                             => cameras'[c].camera_id # cameras'[d].camera_id
      /\ k.direct /\ ~ vmses'[v].retyped => \A c, d \in own : c = d
  BY DEF Rebuilt, LocallyRight
<1>10. OneDirectCamera'
  <2>1. SUFFICES ASSUME NEW w \in Rows(vmses'), connectors'[vmses'[w].connector].direct,
                        ~ vmses'[w].retyped, NEW c \in Rows(cameras'),
                        NEW d \in Rows(cameras'), cameras'[c].vms = w, cameras'[d].vms = w
                 PROVE  c = d
    BY DEF OneDirectCamera, Direct, CamerasOf
  <2>2. CASE w = v
    BY <1>2, <1>9, <2>1, <2>2
  <2>3. CASE w # v
    <3>1. w \in Rows(vmses) /\ vmses'[w] = vmses[w]
      BY <1>5, <2>3
    <3>2. /\ c \in Rows(cameras) /\ cameras[c].vms = w
          /\ d \in Rows(cameras) /\ cameras[d].vms = w
      BY <1>6, <2>1, <2>3
    <3>3. QED
      BY <1>1, <1>2, <2>1, <3>1, <3>2 DEF OneDirectCamera, Direct, CamerasOf
  <2>4. QED
    BY <2>2, <2>3
<1>11. VerifiedUnderVerified'
  <2>1. SUFFICES ASSUME NEW c \in Rows(cameras'), cameras'[c].verified,
                        ~ vmses'[cameras'[c].vms].retyped
                 PROVE  vmses'[cameras'[c].vms].verified
    BY DEF VerifiedUnderVerified
  <2>2. CASE cameras'[c].vms = v
    BY <1>2, <1>9, <2>1, <2>2
  <2>3. CASE cameras'[c].vms # v
    <3>1. c \in Rows(cameras) /\ cameras'[c] = cameras[c]
      BY <1>6, <2>3
    <3>2. cameras[c].vms \in Rows(vmses)
      BY <1>1, <3>1 DEF Linked
    <3>3. vmses'[cameras[c].vms] = vmses[cameras[c].vms]
      BY <1>5, <1>7, <2>3, <3>1, <3>2
    <3>4. QED
      BY <1>1, <1>2, <2>1, <3>1, <3>3 DEF VerifiedUnderVerified
  <2>4. QED
    BY <2>2, <2>3
<1>12. OneCameraPerMonitor'
  <2>1. SUFFICES ASSUME NEW c \in Rows(cameras'), NEW d \in Rows(cameras'), c # d,
                        cameras'[c].vms = cameras'[d].vms, cameras'[c].camera_id # ByHand
                 PROVE  cameras'[c].camera_id # cameras'[d].camera_id
    BY DEF OneCameraPerMonitor
  <2>2. CASE cameras'[c].vms = v
    BY <1>9, <2>1, <2>2
  <2>3. CASE cameras'[c].vms # v
    <3>1. /\ c \in Rows(cameras) /\ cameras'[c] = cameras[c]
          /\ d \in Rows(cameras) /\ cameras'[d] = cameras[d]
      BY <1>6, <2>1, <2>3
    <3>2. QED
      BY <1>1, <2>1, <3>1 DEF OneCameraPerMonitor
  <2>4. QED
    BY <2>2, <2>3
<1>13. QED
  BY <1>3, <1>4, <1>8, <1>10, <1>11, <1>12 DEF IInv

-----------------------------------------------------------------------------
(***************************************************************************)
(* Additions.                                                              *)
(***************************************************************************)

\* cs and ss with new cameras of v, and new streams.
Grown(cs, ss, ncs, nss, v) ==
  /\ ncs \in [Cameras -> Camera \cup {None}] /\ nss \in [Streams -> Stream \cup {None}]
  /\ \A c \in Rows(cs) : ncs[c] = cs[c]
  /\ \A s \in Rows(ss) : nss[s] = ss[s]
  /\ Rows(cs) \subseteq Rows(ncs) /\ Rows(ss) \subseteq Rows(nss)
  /\ \A c \in Rows(ncs) \ Rows(cs) : ncs[c].vms = v
  /\ \A c, d \in Rows(ncs) \ Rows(cs) : c # d => ncs[c].camera_id # ncs[d].camera_id
  /\ \A s \in Rows(nss) \ Rows(ss) : ~ nss[s].stale => nss[s].camera \in Rows(ncs)

\* The ids for new streams are free, and each is there once.
LEMMA FreshStreamsAre ==
  ASSUME NEW ss
  PROVE  /\ FreshStreams(ss) \in Seq(Streams \ Rows(ss))
         /\ \A i, j \in 1 .. Len(FreshStreams(ss)) :
              FreshStreams(ss)[i] = FreshStreams(ss)[j] => i = j
<1>1. IsFiniteSet(Streams \ Rows(ss))
  BY CatalogueAssumption, FS_Subset
<1>2. QED
  BY <1>1, SetToSeqLists DEF FreshStreams

\* The same for cameras.
LEMMA FreeCamerasAre ==
  ASSUME NEW cs, NEW ss, NEW stale
  PROVE  /\ SetToSeq(FreeCameras(cs, ss) \ stale) \in Seq(Cameras \ Rows(cs))
         /\ SetToSeq(FreeCameras(cs, ss) \ stale) \in Seq(Cameras)
         /\ \A i, j \in 1 .. Len(SetToSeq(FreeCameras(cs, ss) \ stale)) :
              SetToSeq(FreeCameras(cs, ss) \ stale)[i] = SetToSeq(FreeCameras(cs, ss) \ stale)[j]
                => i = j
<1> DEFINE S == FreeCameras(cs, ss) \ stale
<1>1. S \subseteq Cameras \ Rows(cs)
  BY DEF FreeCameras
<1>2. IsFiniteSet(S)
  BY <1>1, CatalogueAssumption, FS_Subset
<1> HIDE DEF S
<1>3. /\ SetToSeq(S) \in Seq(S)
      /\ \A i, j \in 1 .. Len(SetToSeq(S)) : SetToSeq(S)[i] = SetToSeq(S)[j] => i = j
  BY <1>2, SetToSeqLists
<1>4. SetToSeq(S) \in Seq(Cameras \ Rows(cs)) /\ SetToSeq(S) \in Seq(Cameras)
  BY <1>1, <1>3
<1>5. QED
  BY <1>3, <1>4 DEF S

\* A good addition grows the tables.
LEMMA AdditionGrows ==
  ASSUME NEW cs \in [Cameras -> Camera \cup {None}], NEW ss \in [Streams -> Stream \cup {None}],
         NEW ids \in Seq(Cameras \ Rows(cs)), NEW v \in Vmses, NEW a, Good(v, ids, a),
         \A i, j \in 1 .. Len(ids) : ids[i] = ids[j] => i = j,
         Len(a.streams) <= Len(FreshStreams(ss))
  PROVE  Grown(cs, ss, With(cs, ids, a.cameras), With(ss, FreshStreams(ss), a.streams), v)
<1> DEFINE ncs == With(cs, ids, a.cameras)
           nss == With(ss, FreshStreams(ss), a.streams)
<1>1. /\ a.cameras \in Seq(Camera) /\ Len(a.cameras) <= Len(ids) /\ a.streams \in Seq(Stream)
      /\ \A n \in DOMAIN a.cameras : a.cameras[n].vms = v
      /\ \A m, n \in DOMAIN a.cameras :
           m # n => a.cameras[m].camera_id # a.cameras[n].camera_id
      /\ \A n \in DOMAIN a.streams :
           ~ a.streams[n].stale => \E m \in DOMAIN a.cameras : a.streams[n].camera = ids[m]
  BY DEF Good, CamerasAreGood
<1>2. None \notin Camera /\ None \notin Stream
  BY CatalogueAssumption
<1>3. /\ ncs \in [Cameras -> Camera \cup {None}]
      /\ \A c \in Rows(cs) : ncs[c] = cs[c]
      /\ Rows(cs) \subseteq Rows(ncs)
      /\ \A n \in DOMAIN a.cameras : ids[n] \in Rows(ncs)
      /\ \A c \in Rows(ncs) \ Rows(cs) :
           \E n \in DOMAIN a.cameras : c = ids[n] /\ ncs[c] = a.cameras[n]
  <2>1. Fit(Cameras, Camera, cs, ids, a.cameras)
    BY <1>1, <1>2 DEF Fit
  <2>2. QED
    BY <2>1, WithRows DEF Filled
<1>4. /\ nss \in [Streams -> Stream \cup {None}]
      /\ \A s \in Rows(ss) : nss[s] = ss[s]
      /\ Rows(ss) \subseteq Rows(nss)
      /\ \A s \in Rows(nss) \ Rows(ss) : \E n \in DOMAIN a.streams : nss[s] = a.streams[n]
  <2>1. /\ FreshStreams(ss) \in Seq(Streams \ Rows(ss))
        /\ \A i, j \in 1 .. Len(FreshStreams(ss)) :
             FreshStreams(ss)[i] = FreshStreams(ss)[j] => i = j
    BY FreshStreamsAre
  <2>2. Fit(Streams, Stream, ss, FreshStreams(ss), a.streams)
    BY <1>1, <1>2, <2>1 DEF Fit
  <2>3. Filled(Streams, Stream, ss, FreshStreams(ss), a.streams, nss)
    BY <2>2, WithRows
  <2> HIDE DEF nss
  <2>4. QED
    BY <2>3 DEF Filled
<1> HIDE DEF ncs, nss
<1>5. \A c \in Rows(ncs) \ Rows(cs) : ncs[c].vms = v
  BY <1>1, <1>3
<1>6. \A c, d \in Rows(ncs) \ Rows(cs) : c # d => ncs[c].camera_id # ncs[d].camera_id
  BY <1>1, <1>3
<1>7. \A s \in Rows(nss) \ Rows(ss) : ~ nss[s].stale => nss[s].camera \in Rows(ncs)
  BY <1>1, <1>3, <1>4
<1>8. QED
  BY <1>3, <1>4, <1>5, <1>6, <1>7 DEF Grown, ncs, nss

-----------------------------------------------------------------------------
(***************************************************************************)
(* VMSs.                                                                   *)
(***************************************************************************)

\* A new row of a VMS is the only change of the table, and v has no cameras.
LEMMA NewVmsOnly ==
  ASSUME IInv, NEW v \in Vmses, NEW k \in Rows(connectors), NEW type \in Types,
         NEW verified \in BOOLEAN, NewVms(v, k, type, verified)
  PROVE  /\ vmses' \in [Vmses -> Vms \cup {None}] /\ v \in Rows(vmses')
         /\ vmses'[v].connector = k /\ vmses'[v].verified = verified
         /\ \A w \in Vmses \ {v} : vmses'[w] = vmses[w]
         /\ \A c \in Rows(cameras) : cameras[c].vms # v
<1> DEFINE row == [connector |-> k, type |-> type, verified |-> verified, retyped |-> FALSE]
<1>1. TypeOK
  BY DEF IInv
<1>2. k \in Connectors
  BY <1>1 DEF Rows, TypeOK
<1>3. row \in Vms /\ row # None
  <2>1. row \in Vms
    BY <1>2 DEF Vms
  <2> HIDE DEF row
  <2>2. QED
    BY <2>1, CatalogueAssumption
<1>4. vmses' = [vmses EXCEPT ![v] = row] /\ vmses \in [Vmses -> Vms \cup {None}]
  BY <1>1 DEF NewVms, TypeOK
<1>5. vmses'[v] = row /\ vmses' \in [Vmses -> Vms \cup {None}]
      /\ \A w \in Vmses \ {v} : vmses'[w] = vmses[w]
  BY <1>3, <1>4
<1>6. v \in Rows(vmses')
  BY <1>3, <1>5 DEF Rows
<1>7. \A c \in Rows(cameras) : cameras[c].vms # v
  BY DEF NewVms, CamerasOf
<1>8. QED
  BY <1>5, <1>6, <1>7

\* Marking v changes v alone, and not its connector.
LEMMA VerifyOnly ==
  ASSUME IInv, NEW v \in Rows(vmses), NEW verified \in BOOLEAN, Verify(v, verified)
  PROVE  /\ v \in Vmses /\ vmses' \in [Vmses -> Vms \cup {None}] /\ v \in Rows(vmses')
         /\ vmses'[v].connector = vmses[v].connector /\ vmses'[v].verified = verified
         /\ vmses'[v].connector \in Rows(connectors)
         /\ \A w \in Vmses \ {v} : vmses'[w] = vmses[w]
<1>1. vmses \in [Vmses -> Vms \cup {None}] /\ v \in Vmses /\ vmses[v].connector \in Rows(connectors)
  BY DEF IInv, TypeOK, Linked, Rows
<1>2. {v} \subseteq Rows(vmses) /\ vmses' = Marked(vmses, {v}, verified)
  BY DEF Verify
<1>3. /\ vmses' \in [Vmses -> Vms \cup {None}] /\ Rows(vmses') = Rows(vmses)
      /\ vmses'[v].connector = vmses[v].connector /\ vmses'[v].verified = verified
  BY <1>1, <1>2, MarkedVms
<1>4. \A w \in Vmses \ {v} : vmses'[w] = vmses[w]
  BY <1>1, <1>2 DEF Marked
<1>5. QED
  BY <1>1, <1>3, <1>4

\* CreateVms.
LEMMA CreateVmsKeeps ==
  ASSUME IInv, NEW v \in Vmses, NEW k \in Connectors, NEW type \in Types, CreateVms(v, k, type)
  PROVE  IInv' /\ Kept
<1>1. /\ connectors \in [Connectors -> Connector \cup {None}]
      /\ cameras \in [Cameras -> Camera \cup {None}]
      /\ streams \in [Streams -> Stream \cup {None}] /\ uses \subseteq Rows(streams)
      /\ \A s \in Rows(streams) : ~ streams[s].stale => streams[s].camera \in Rows(cameras)
  BY DEF IInv, TypeOK, UsedAreThere, Linked
<1>2. /\ k \in Rows(connectors) /\ ~ connectors[k].direct
      /\ connectors' = connectors /\ uses' = uses
  BY DEF CreateVms
<1>3. CASE NewVms(v, k, type, FALSE) /\ UNCHANGED <<cameras, streams>>
  <2>1. /\ vmses' \in [Vmses -> Vms \cup {None}] /\ v \in Rows(vmses')
        /\ vmses'[v].connector = k /\ \A w \in Vmses \ {v} : vmses'[w] = vmses[w]
        /\ \A c \in Rows(cameras) : cameras[c].vms # v
    BY <1>2, <1>3, NewVmsOnly
  <2>2. cameras' = cameras /\ streams' = streams
    BY <1>3
  <2>3. LocallyRight(v)
    BY <2>1, <2>2 DEF LocallyRight
  <2>4. Rebuilt(v)
    BY <1>1, <1>2, <2>1, <2>2, <2>3 DEF Rebuilt
  <2>5. QED
    BY <2>4, RebuiltKeeps
<1>4. ASSUME NewVms(v, k, type, TRUE),
             NEW a \in AddCameras(v, type, FreshCameras, {}),
             Len(a.streams) <= Len(FreshStreams(streams)),
             cameras' = With(cameras, FreshCameras, a.cameras),
             streams' = With(streams, FreshStreams(streams), a.streams)
      PROVE  IInv' /\ Kept
  <2>1. /\ vmses' \in [Vmses -> Vms \cup {None}] /\ v \in Rows(vmses')
        /\ vmses'[v].connector = k /\ vmses'[v].verified = TRUE
        /\ \A w \in Vmses \ {v} : vmses'[w] = vmses[w]
        /\ \A c \in Rows(cameras) : cameras[c].vms # v
    BY <1>2, <1>4, NewVmsOnly
  <2>2. FreshCameras = SetToSeq(FreeCameras(cameras, streams) \ {})
    <3>1. FreeCameras(cameras, streams) \ {} = FreeCameras(cameras, streams)
      OBVIOUS
    <3>2. QED
      BY <3>1 DEF FreshCameras
  <2>3. /\ FreshCameras \in Seq(Cameras \ Rows(cameras)) /\ FreshCameras \in Seq(Cameras)
        /\ \A i, j \in 1 .. Len(FreshCameras) : FreshCameras[i] = FreshCameras[j] => i = j
    <3> DEFINE F == SetToSeq(FreeCameras(cameras, streams) \ {})
    <3>1. /\ F \in Seq(Cameras \ Rows(cameras)) /\ F \in Seq(Cameras)
          /\ \A i, j \in 1 .. Len(F) : F[i] = F[j] => i = j
      BY FreeCamerasAre
    <3> HIDE DEF F
    <3>2. QED
      BY <2>2, <3>1 DEF F
  <2>4. {} \in SUBSET Cameras
    OBVIOUS
  <2>5. Good(v, FreshCameras, a)
    BY <1>4, <2>3, <2>4, AdditionsAreGood
  <2>6. Grown(cameras, streams, cameras', streams', v)
    BY <1>1, <1>4, <2>3, <2>5, AdditionGrows
  <2>7. \A c \in Rows(cameras') : cameras'[c].vms = v => c \notin Rows(cameras)
    BY <2>1, <2>6 DEF Grown
  <2>8. LocallyRight(v)
    BY <1>2, <2>1, <2>6, <2>7 DEF LocallyRight, Grown
  <2>9. \A c \in Rows(cameras') : cameras'[c].vms # v => cameras'[c] = cameras[c]
    BY <2>6 DEF Grown
  <2>10. \A s \in Rows(streams') : ~ streams'[s].stale => streams'[s].camera \in Rows(cameras')
    BY <1>1, <2>6 DEF Grown
  <2>11. uses \subseteq Rows(streams') /\ \A c \in Rows(cameras) : cameras'[c] = cameras[c]
    BY <1>1, <2>6 DEF Grown
  <2>12. Rebuilt(v)
    BY <1>2, <2>1, <2>6, <2>8, <2>9, <2>10, <2>11 DEF Rebuilt, Grown
  <2>13. QED
    BY <2>12, RebuiltKeeps
<1>5. QED
  BY <1>3, <1>4 DEF CreateVms

\* SetVerificationFalse.
LEMMA SetVerificationFalseKeeps ==
  ASSUME IInv, NEW v \in Vmses, CanUpdateVms(v), SetVerificationFalse(v),
         UNCHANGED <<connectors, uses>>
  PROVE  IInv' /\ Kept
<1> DEFINE C == CamerasOf({v})
           S == StreamsOf(C)
<1>1. /\ cameras \in [Cameras -> Camera \cup {None}]
      /\ streams \in [Streams -> Stream \cup {None}] /\ uses \subseteq Rows(streams)
      /\ \A s \in Rows(streams) : ~ streams[s].stale => streams[s].camera \in Rows(cameras)
      /\ OneCameraPerMonitor
  BY DEF IInv, TypeOK, UsedAreThere, Linked
<1>2. v \in Rows(vmses) /\ ~ connectors[vmses[v].connector].direct
  BY DEF CanUpdateVms, Direct
<1>3. /\ vmses' \in [Vmses -> Vms \cup {None}] /\ v \in Rows(vmses')
      /\ vmses'[v].connector = vmses[v].connector /\ vmses'[v].connector \in Rows(connectors)
      /\ \A w \in Vmses \ {v} : vmses'[w] = vmses[w]
  BY <1>2, VerifyOnly DEF SetVerificationFalse
<1>4. C \subseteq Rows(cameras) /\ \A c \in Rows(cameras) : c \in C <=> cameras[c].vms = v
  BY DEF CamerasOf
<1>5. S \subseteq Rows(streams)
  BY DEF StreamsOf
<1>6. cameras' = Marked(cameras, C, FALSE) /\ streams' = Marked(streams, S, FALSE)
  BY DEF SetVerificationFalse
<1> HIDE DEF C, S
<1>7. /\ cameras' \in [Cameras -> Camera \cup {None}] /\ Rows(cameras') = Rows(cameras)
      /\ \A c \in Rows(cameras) :
           /\ cameras'[c].vms = cameras[c].vms /\ cameras'[c].camera_id = cameras[c].camera_id
           /\ c \in C => ~ cameras'[c].verified
      /\ \A c \in Rows(cameras) \ C : cameras'[c] = cameras[c]
  <2>1. CamerasMarked(cameras, C, Marked(cameras, C, FALSE))
    BY <1>1, <1>4, MarkedCameras
  <2>2. CamerasMarked(cameras, C, cameras')
    BY <1>6, <2>1
  <2>3. QED
    BY <2>2 DEF CamerasMarked
<1>8. /\ streams' \in [Streams -> Stream \cup {None}] /\ Rows(streams') = Rows(streams)
      /\ \A s \in Rows(streams) :
           streams'[s].camera = streams[s].camera /\ streams'[s].stale = streams[s].stale
  <2>1. StreamsMarked(streams, Marked(streams, S, FALSE))
    BY <1>1, <1>5, MarkedStreams
  <2>2. StreamsMarked(streams, streams')
    BY <1>6, <2>1
  <2>3. QED
    BY <2>2 DEF StreamsMarked
<1>9. LocallyRight(v)
  BY <1>1, <1>2, <1>3, <1>4, <1>7 DEF LocallyRight, OneCameraPerMonitor
<1>10. Rebuilt(v)
  BY <1>1, <1>3, <1>4, <1>7, <1>8, <1>9 DEF Rebuilt
<1>11. QED
  BY <1>10, RebuiltKeeps

\* Readd.
LEMMA ReaddKeeps ==
  ASSUME IInv, NEW v \in Vmses, CanUpdateVms(v), Readd(v, CamerasOf({v})),
         UNCHANGED <<connectors, uses>>
  PROVE  IInv' /\ Kept
<1> DEFINE old == CamerasOf({v})
           cs == Ended(cameras, old)
           ss == Ended(streams, StreamsOf(old))
           stale == IF vmses[v].type = "zoneminder" THEN old ELSE {}
           ids == SetToSeq(FreeCameras(cs, ss) \ stale)
<1>1. /\ cameras \in [Cameras -> Camera \cup {None}]
      /\ streams \in [Streams -> Stream \cup {None}] /\ uses \subseteq Rows(streams)
      /\ vmses \in [Vmses -> Vms \cup {None}]
      /\ \A s \in Rows(streams) : ~ streams[s].stale => streams[s].camera \in Rows(cameras)
  BY DEF IInv, TypeOK, UsedAreThere, Linked
<1>2. v \in Rows(vmses) /\ ~ connectors[vmses[v].connector].direct /\ vmses[v].type \in Types
  BY <1>1 DEF CanUpdateVms, Direct, Vms, Rows
<1>3. old \subseteq Cameras /\ \A c \in Rows(cameras) : c \in old <=> cameras[c].vms = v
  BY <1>1 DEF CamerasOf, Rows
<1>4. \A s \in Rows(streams) : s \in StreamsOf(old) <=> streams[s].camera \in old
  BY DEF StreamsOf
<1>5. uses \cap StreamsOf(old) = {}
  BY DEF CanUpdateVms, InUse
<1>6. stale \in SUBSET Cameras
  BY <1>3
<1>7. PICK a \in AddCameras(v, vmses[v].type, ids, stale) :
        LET new == With(cs, ids, a.cameras)
            newStreams == With(ss, FreshStreams(ss), a.streams)
            C == IF a.raised /\ TRUE THEN {c \in Rows(new) : new[c].vms = v} ELSE {}
        IN /\ Len(a.streams) <= Len(FreshStreams(ss))
           /\ Verify(v, ~ a.raised)
           /\ cameras' = Marked(new, C, FALSE)
           /\ streams' = Marked(newStreams,
                                {s \in Rows(newStreams) : newStreams[s].camera \in C}, FALSE)
  BY DEF Readd
<1> DEFINE new == With(cs, ids, a.cameras)
           newStreams == With(ss, FreshStreams(ss), a.streams)
           C == IF a.raised /\ TRUE THEN {c \in Rows(new) : new[c].vms = v} ELSE {}
           S == {s \in Rows(newStreams) : newStreams[s].camera \in C}
<1>8. /\ cs \in [Cameras -> Camera \cup {None}] /\ Rows(cs) = Rows(cameras) \ old
      /\ \A c \in Rows(cameras) \ old : cs[c] = cameras[c]
  <2> HIDE DEF old
  <2>1. QED
    BY <1>1 DEF Ended, Rows
<1>9. /\ ss \in [Streams -> Stream \cup {None}] /\ Rows(ss) = Rows(streams) \ StreamsOf(old)
      /\ \A s \in Rows(streams) \ StreamsOf(old) : ss[s] = streams[s]
  <2> HIDE DEF old
  <2>1. QED
    BY <1>1 DEF Ended, Rows
<1>10. /\ ids \in Seq(Cameras \ Rows(cs)) /\ ids \in Seq(Cameras)
       /\ \A i, j \in 1 .. Len(ids) : ids[i] = ids[j] => i = j
  <2> HIDE DEF cs, ss, stale
  <2>1. QED
    BY FreeCamerasAre
<1>11. /\ Len(a.streams) <= Len(FreshStreams(ss)) /\ Verify(v, ~ a.raised)
       /\ cameras' = Marked(new, C, FALSE) /\ streams' = Marked(newStreams, S, FALSE)
  BY <1>7
<1>12. Good(v, ids, a)
  <2> HIDE DEF ids, stale
  <2>1. QED
    BY <1>2, <1>6, <1>7, <1>10, AdditionsAreGood
<1>13. Grown(cs, ss, new, newStreams, v)
  <2> HIDE DEF ids, cs, ss
  <2>1. QED
    BY <1>8, <1>9, <1>10, <1>11, <1>12, AdditionGrows
<1>14. a.raised \in BOOLEAN /\ (~ a.raised) \in BOOLEAN
  BY <1>12 DEF Good
<1>15. /\ C \subseteq Rows(new) /\ S \subseteq Rows(newStreams)
       /\ \A c \in Rows(new) : c \in C => new[c].vms = v
       /\ \A c \in Rows(new) : a.raised /\ new[c].vms = v => c \in C
  <2> HIDE DEF new, newStreams
  <2>1. QED
    BY <1>14
<1> HIDE DEF new, newStreams, C, S, ids, stale, cs, ss, old
<1>16. /\ cameras' \in [Cameras -> Camera \cup {None}] /\ Rows(cameras') = Rows(new)
       /\ \A c \in Rows(new) :
            /\ cameras'[c].vms = new[c].vms /\ cameras'[c].camera_id = new[c].camera_id
            /\ c \in C => ~ cameras'[c].verified
       /\ \A c \in Rows(new) \ C : cameras'[c] = new[c]
  <2>1. new \in [Cameras -> Camera \cup {None}]
    BY <1>13 DEF Grown
  <2>2. CamerasMarked(new, C, Marked(new, C, FALSE))
    BY <1>15, <2>1, MarkedCameras
  <2>3. CamerasMarked(new, C, cameras')
    BY <1>11, <2>2
  <2>4. QED
    BY <2>3 DEF CamerasMarked
<1>17. /\ streams' \in [Streams -> Stream \cup {None}] /\ Rows(streams') = Rows(newStreams)
       /\ \A s \in Rows(newStreams) : /\ streams'[s].camera = newStreams[s].camera
                                      /\ streams'[s].stale = newStreams[s].stale
  <2>1. newStreams \in [Streams -> Stream \cup {None}]
    BY <1>13 DEF Grown
  <2>2. StreamsMarked(newStreams, Marked(newStreams, S, FALSE))
    BY <1>15, <2>1, MarkedStreams
  <2>3. StreamsMarked(newStreams, streams')
    BY <1>11, <2>2
  <2>4. QED
    BY <2>3 DEF StreamsMarked
<1>18. /\ vmses' \in [Vmses -> Vms \cup {None}] /\ v \in Rows(vmses')
       /\ vmses'[v].connector = vmses[v].connector /\ vmses'[v].verified = (~ a.raised)
       /\ vmses'[v].connector \in Rows(connectors)
       /\ \A w \in Vmses \ {v} : vmses'[w] = vmses[w]
  BY <1>2, <1>11, <1>14, VerifyOnly
<1>19. \A c \in Rows(new) : new[c].vms = v => c \notin Rows(cs)
  BY <1>3, <1>8, <1>13 DEF Grown
<1>20. LocallyRight(v)
  <2> DEFINE own == {c \in Rows(cameras') : cameras'[c].vms = v}
  <2>1. \A c \in own : cameras'[c].verified => vmses'[v].verified
    <3>1. TAKE c \in own
    <3>2. c \in Rows(new) /\ new[c].vms = v
      BY <1>16
    <3>3. CASE a.raised
      <4>1. c \in C
        BY <1>15, <3>2, <3>3
      <4>2. ~ cameras'[c].verified
        BY <1>16, <3>2, <4>1
      <4>3. QED
        BY <4>2
    <3>4. CASE ~ a.raised
      BY <1>18, <3>4
    <3>5. QED
      BY <3>3, <3>4
  <2>2. \A c, d \in own : c # d => cameras'[c].camera_id # cameras'[d].camera_id
    BY <1>13, <1>16, <1>19 DEF Grown
  <2>3. ~ connectors[vmses'[v].connector].direct
    BY <1>2, <1>18
  <2>4. QED
    BY <2>1, <2>2, <2>3 DEF LocallyRight
<1>21. \A c \in Rows(cameras') : cameras'[c].vms # v => cameras'[c] = cameras[c]
  <2>1. TAKE c \in Rows(cameras')
  <2>2. HAVE cameras'[c].vms # v
  <2>3. c \in Rows(new) /\ new[c].vms # v /\ c \notin C /\ cameras'[c] = new[c]
    BY <1>15, <1>16, <2>2
  <2>4. c \in Rows(cs) /\ new[c] = cs[c]
    BY <1>13, <2>3 DEF Grown
  <2>5. QED
    BY <1>8, <2>3, <2>4
<1>22. \A c \in Rows(cameras) : cameras[c].vms # v => cameras'[c] = cameras[c]
  <2>1. TAKE c \in Rows(cameras)
  <2>2. HAVE cameras[c].vms # v
  <2>3. c \in Rows(cs) /\ cs[c] = cameras[c]
    BY <1>3, <1>8, <2>2
  <2>4. c \in Rows(new) /\ new[c] = cameras[c]
    BY <1>13, <2>3 DEF Grown
  <2>5. QED
    BY <1>15, <1>16, <2>2, <2>4
<1>23. \A s \in Rows(streams') : ~ streams'[s].stale => streams'[s].camera \in Rows(cameras')
  <2>1. TAKE s \in Rows(streams')
  <2>2. HAVE ~ streams'[s].stale
  <2>3. s \in Rows(newStreams) /\ ~ newStreams[s].stale
        /\ streams'[s].camera = newStreams[s].camera
    BY <1>17, <2>2
  <2>4. CASE s \in Rows(ss)
    <3>1. newStreams[s] = streams[s] /\ s \in Rows(streams) \ StreamsOf(old)
      BY <1>9, <1>13, <2>4 DEF Grown
    <3>2. streams[s].camera \in Rows(cameras) \ old
      BY <1>1, <1>4, <2>3, <3>1
    <3>3. streams[s].camera \in Rows(new)
      BY <1>8, <1>13, <3>2 DEF Grown
    <3>4. QED
      BY <1>16, <2>3, <3>1, <3>3
  <2>5. CASE s \notin Rows(ss)
    BY <1>13, <1>16, <2>3, <2>5 DEF Grown
  <2>6. QED
    BY <2>4, <2>5
<1>24. uses \subseteq Rows(streams')
  BY <1>1, <1>5, <1>9, <1>13, <1>17 DEF Grown
<1>25. Rebuilt(v)
  BY <1>16, <1>17, <1>18, <1>20, <1>21, <1>22, <1>23, <1>24 DEF Rebuilt
<1>26. QED
  BY <1>25, RebuiltKeeps

\* UpdateVms.
LEMMA UpdateVmsKeeps ==
  ASSUME IInv, NEW v \in Vmses, UpdateVms(v)
  PROVE  IInv' /\ Kept
<1>1. CanUpdateVms(v) /\ UNCHANGED <<connectors, uses>>
  BY DEF UpdateVms
<1>2. SetVerificationFalse(v) \/ Readd(v, CamerasOf({v}))
  BY DEF UpdateVms
<1>3. QED
  BY <1>1, <1>2, SetVerificationFalseKeeps, ReaddKeeps

-----------------------------------------------------------------------------
(***************************************************************************)
(* Direct cameras.                                                         *)
(***************************************************************************)

\* The first of the free ids, when there is one.
LEMMA FirstIsFree ==
  /\ FreshCameras # <<>> => Head(FreshCameras) \in Cameras \ Rows(cameras)
  /\ streams \in [Streams -> Stream \cup {None}] /\ Rows(streams) # Streams
       => Head(FreshStreams(streams)) \in Streams \ Rows(streams)
<1>1. ASSUME FreshCameras # <<>>
      PROVE  Head(FreshCameras) \in Cameras \ Rows(cameras)
  <2>1. FreeCameras(cameras, streams) \subseteq Cameras \ Rows(cameras)
    BY DEF FreeCameras
  <2>2. IsFiniteSet(FreeCameras(cameras, streams))
    BY <2>1, CatalogueAssumption, FS_Subset
  <2>3. FreshCameras \in Seq(FreeCameras(cameras, streams))
    BY <2>2, SetToSeqLists DEF FreshCameras
  <2>4. Head(FreshCameras) \in FreeCameras(cameras, streams)
    BY <1>1, <2>3
  <2>5. QED
    BY <2>1, <2>4
<1>2. ASSUME streams \in [Streams -> Stream \cup {None}], Rows(streams) # Streams
      PROVE  Head(FreshStreams(streams)) \in Streams \ Rows(streams)
  <2> DEFINE S == Streams \ Rows(streams)
  <2>1. S # {} /\ IsFiniteSet(S)
    BY <1>2, CatalogueAssumption, FS_Subset DEF Rows
  <2> HIDE DEF S
  <2>2. SetToSeq(S) \in Seq(S) /\ SetToSeq(S) # <<>>
    BY <2>1, SetToSeqLists
  <2>3. Head(SetToSeq(S)) \in S
    BY <2>2
  <2>4. QED
    BY <2>3 DEF S, FreshStreams
<1>3. QED
  BY <1>1, <1>2

\* InitDirectIpCamera, with the row of its VMS.
LEMMA DirectKeeps ==
  ASSUME IInv, NEW v \in Vmses, NEW verified \in BOOLEAN, RoomForOne,
         InitDirectIpCamera(v, verified), UNCHANGED <<connectors, uses>>,
         vmses' \in [Vmses -> Vms \cup {None}], v \in Rows(vmses'),
         vmses'[v].connector \in Rows(connectors), vmses'[v].verified = verified,
         \A w \in Vmses \ {v} : vmses'[w] = vmses[w],
         \/ \A c \in Rows(cameras) : cameras[c].vms # v
         \/ v \in Rows(vmses) /\ Direct(v) /\ vmses'[v].retyped = vmses[v].retyped,
         connectors[vmses'[v].connector].direct
  PROVE  IInv' /\ Kept
<1> DEFINE C == CamerasOf({v})
           k == connectors[vmses'[v].connector]
           own == {c \in Rows(cameras') : cameras'[c].vms = v}
<1>1. /\ cameras \in [Cameras -> Camera \cup {None}]
      /\ streams \in [Streams -> Stream \cup {None}] /\ uses \subseteq Rows(streams)
      /\ \A s \in Rows(streams) : ~ streams[s].stale => streams[s].camera \in Rows(cameras)
      /\ OneCameraPerMonitor /\ OneDirectCamera /\ VerifiedUnderVerified
  BY DEF IInv, TypeOK, UsedAreThere, Linked
<1>2. C \subseteq Rows(cameras) /\ \A c \in Rows(cameras) : c \in C <=> cameras[c].vms = v
  BY DEF CamerasOf
<1>3. PICK c \in C \cup (IF C = {} THEN {Head(FreshCameras)} ELSE {}),
           s \in {Head(FreshStreams(streams))} :
        /\ cameras' = [cameras EXCEPT ![c] = NewCamera(v, ByHand, verified)]
        /\ streams' = IF StreamsOf({c}) = {}
                      THEN [streams EXCEPT ![s] = NewStream(c, verified, FALSE)] ELSE streams
  BY DEF InitDirectIpCamera
<1>4. s \in Streams \ Rows(streams)
  BY <1>1, <1>3, FirstIsFree DEF RoomForOne
<1>5. c \in Cameras /\ (c \in C \/ (C = {} /\ c \notin Rows(cameras)))
  BY <1>1, <1>2, <1>3, FirstIsFree DEF RoomForOne, Rows
<1> HIDE DEF C
<1> DEFINE row == NewCamera(v, ByHand, verified)
<1>6. row \in Camera /\ row # None /\ row.vms = v /\ row.camera_id = ByHand
      /\ row.verified = verified
  BY CatalogueAssumption DEF NewCamera, Camera
<1>7. /\ cameras' \in [Cameras -> Camera \cup {None}] /\ cameras'[c] = row
      /\ \A d \in Cameras \ {c} : cameras'[d] = cameras[d]
  BY <1>1, <1>3, <1>5, <1>6
<1> HIDE DEF row
<1>8. /\ c \in Rows(cameras') /\ \A d \in Rows(cameras) : d \in Rows(cameras')
      /\ \A d \in Rows(cameras') : d # c => d \in Rows(cameras) /\ cameras'[d] = cameras[d]
  BY <1>1, <1>5, <1>6, <1>7 DEF Rows
<1>9. \A d \in own : d = c \/ (d \in C /\ cameras'[d] = cameras[d])
  <2>1. TAKE d \in own
  <2>2. d \in Rows(cameras') /\ cameras'[d].vms = v
    OBVIOUS
  <2>3. d # c => d \in Rows(cameras) /\ cameras'[d] = cameras[d]
    BY <1>8, <2>2
  <2>4. QED
    BY <1>2, <2>2, <2>3
<1>10. LocallyRight(v)
  <2>1. ~ vmses'[v].retyped => \A d \in own : d = c
    <3>1. SUFFICES ASSUME ~ vmses'[v].retyped, NEW d \in own, d # c
                   PROVE  FALSE
      OBVIOUS
    <3>2. d \in C /\ c \in C
      BY <1>5, <1>9, <3>1
    <3>3. v \in Rows(vmses) /\ Direct(v) /\ vmses'[v].retyped = vmses[v].retyped
      BY <1>2, <3>2
    <3>4. QED
      BY <1>1, <3>1, <3>2, <3>3 DEF OneDirectCamera, C
  <2>2. \A d \in own : cameras'[d].verified /\ ~ vmses'[v].retyped => vmses'[v].verified
    BY <1>6, <1>7, <2>1
  <2>3. \A d, e \in own : d # e /\ cameras'[d].camera_id # ByHand
                            => cameras'[d].camera_id # cameras'[e].camera_id
    <3>1. SUFFICES ASSUME NEW d \in own, NEW e \in own, d # e, cameras'[d].camera_id # ByHand
                   PROVE  cameras'[d].camera_id # cameras'[e].camera_id
      OBVIOUS
    <3>2. d # c /\ d \in C /\ cameras'[d] = cameras[d]
      BY <1>6, <1>7, <1>9, <3>1
    <3>3. CASE e = c
      BY <1>6, <1>7, <3>1, <3>3
    <3>4. CASE e # c
      <4>1. e \in C /\ cameras'[e] = cameras[e]
        BY <1>9, <3>4
      <4>2. QED
        BY <1>1, <1>2, <3>1, <3>2, <4>1 DEF OneCameraPerMonitor
    <3>5. QED
      BY <3>3, <3>4
  <2>4. QED
    BY <2>1, <2>2, <2>3 DEF LocallyRight
<1>11. \A d \in Rows(cameras) : cameras[d].vms # v => cameras'[d] = cameras[d]
  <2>1. TAKE d \in Rows(cameras)
  <2>2. HAVE cameras[d].vms # v
  <2>3. d # c /\ d \in Cameras
    BY <1>1, <1>2, <1>5, <2>2 DEF Rows
  <2>4. QED
    BY <1>7, <2>3
<1>12. \A d \in Rows(cameras') : cameras'[d].vms # v => cameras'[d] = cameras[d]
  BY <1>6, <1>7, <1>8
<1> DEFINE new == NewStream(c, verified, FALSE)
<1>13. new \in Stream /\ new # None /\ new.camera = c
  <2>1. new \in Stream /\ new.camera = c
    BY <1>5 DEF NewStream, Stream
  <2> HIDE DEF new
  <2>2. QED
    BY <2>1, CatalogueAssumption
<1> HIDE DEF new
<1>14. /\ streams' \in [Streams -> Stream \cup {None}]
       /\ \A t \in Streams : streams'[t] = streams[t] \/ (t = s /\ streams'[t] = new)
  BY <1>1, <1>3, <1>4, <1>13 DEF new
<1>15. \A t \in Rows(streams') :
         (t \in Rows(streams) /\ streams'[t] = streams[t]) \/ streams'[t] = new
  BY <1>1, <1>14 DEF Rows
<1>16. \A t \in Rows(streams') : ~ streams'[t].stale => streams'[t].camera \in Rows(cameras')
  BY <1>1, <1>8, <1>13, <1>15
<1>17. uses \subseteq Rows(streams')
  BY <1>1, <1>4, <1>13, <1>14 DEF Rows
<1>18. Rebuilt(v)
  BY <1>7, <1>10, <1>11, <1>12, <1>14, <1>16, <1>17 DEF Rebuilt
<1>19. QED
  BY <1>18, RebuiltKeeps

\* CreateDirectCamera.
LEMMA CreateDirectKeeps ==
  ASSUME IInv, NEW v \in Vmses, NEW k \in Connectors, CreateDirectCamera(v, k)
  PROVE  IInv' /\ Kept
<1>1. /\ streams \in [Streams -> Stream \cup {None}] /\ uses \subseteq Rows(streams)
      /\ cameras \in [Cameras -> Camera \cup {None}]
      /\ \A s \in Rows(streams) : ~ streams[s].stale => streams[s].camera \in Rows(cameras)
  BY DEF IInv, TypeOK, UsedAreThere, Linked
<1>2. /\ k \in Rows(connectors) /\ connectors[k].direct /\ RoomForOne
      /\ connectors' = connectors /\ uses' = uses
  BY DEF CreateDirectCamera
<1>3. "NA" \in Types
  BY DEF Types
<1>4. CASE NewVms(v, k, "NA", FALSE) /\ UNCHANGED <<cameras, streams>>
  <2>1. /\ vmses' \in [Vmses -> Vms \cup {None}] /\ v \in Rows(vmses')
        /\ vmses'[v].connector = k /\ \A w \in Vmses \ {v} : vmses'[w] = vmses[w]
        /\ \A c \in Rows(cameras) : cameras[c].vms # v
    BY <1>2, <1>3, <1>4, NewVmsOnly
  <2>2. cameras' = cameras /\ streams' = streams
    BY <1>4
  <2>3. LocallyRight(v)
    BY <2>1, <2>2 DEF LocallyRight
  <2>4. Rebuilt(v)
    BY <1>1, <1>2, <2>1, <2>2, <2>3 DEF Rebuilt
  <2>5. QED
    BY <2>4, RebuiltKeeps
<1>5. ASSUME NEW verified \in BOOLEAN, NewVms(v, k, "NA", verified),
             InitDirectIpCamera(v, verified)
      PROVE  IInv' /\ Kept
  <2>1. /\ vmses' \in [Vmses -> Vms \cup {None}] /\ v \in Rows(vmses')
        /\ vmses'[v].connector = k /\ vmses'[v].verified = verified
        /\ \A w \in Vmses \ {v} : vmses'[w] = vmses[w]
        /\ \A c \in Rows(cameras) : cameras[c].vms # v
    BY <1>2, <1>3, <1>5, NewVmsOnly
  <2>2. QED
    BY <1>2, <1>5, <2>1, DirectKeeps
<1>6. QED
  BY <1>4, <1>5 DEF CreateDirectCamera

\* The row of a direct camera when it is edited.
LEMMA EditedVms ==
  ASSUME IInv, NEW v \in Rows(vmses), Direct(v), NEW k \in Selectable(v),
         NEW verified \in BOOLEAN, vmses' = Edited(v, k, verified)
  PROVE  /\ v \in Vmses /\ vmses' \in [Vmses -> Vms \cup {None}] /\ v \in Rows(vmses')
         /\ vmses'[v].connector = k /\ vmses'[v].verified = verified
         /\ vmses'[v].retyped = vmses[v].retyped
         /\ k \in Rows(connectors) /\ connectors[k].direct
         /\ \A w \in Vmses \ {v} : vmses'[w] = vmses[w]
<1> DEFINE row == [vmses[v] EXCEPT !.connector = k, !.verified = verified]
<1>1. /\ vmses \in [Vmses -> Vms \cup {None}] /\ v \in Vmses /\ vmses[v] \in Vms
      /\ connectors \in [Connectors -> Connector \cup {None}]
      /\ vmses[v].connector \in Rows(connectors) /\ None \notin Vms
  BY CatalogueAssumption DEF IInv, TypeOK, Linked, Rows
<1>2. k \in Rows(connectors) /\ connectors[k].direct /\ k \in Connectors
  BY <1>1 DEF Selectable, Direct, Rows
<1>3. /\ row \in Vms /\ row # None /\ row.connector = k /\ row.verified = verified
      /\ row.retyped = vmses[v].retyped
  BY <1>1, <1>2 DEF Vms
<1>4. vmses' = [vmses EXCEPT ![v] = row]
  BY <1>1 DEF Edited
<1> HIDE DEF row
<1>5. /\ vmses'[v] = row /\ vmses' \in [Vmses -> Vms \cup {None}]
      /\ \A w \in Vmses \ {v} : vmses'[w] = vmses[w]
  BY <1>1, <1>3, <1>4
<1>6. v \in Rows(vmses')
  BY <1>1, <1>3, <1>5 DEF Rows
<1>7. QED
  BY <1>1, <1>2, <1>3, <1>5, <1>6

\* UpdateDirectCamera.
LEMMA UpdateDirectKeeps ==
  ASSUME IInv, NEW v \in Vmses, UpdateDirectCamera(v)
  PROVE  IInv' /\ Kept
<1>1. v \in Rows(vmses) /\ Direct(v) /\ RoomForOne /\ UNCHANGED <<connectors, uses>>
  BY DEF UpdateDirectCamera
<1>2. /\ streams \in [Streams -> Stream \cup {None}] /\ uses \subseteq Rows(streams)
      /\ cameras \in [Cameras -> Camera \cup {None}]
      /\ \A s \in Rows(streams) : ~ streams[s].stale => streams[s].camera \in Rows(cameras)
      /\ vmses[v].verified \in BOOLEAN
      /\ OneCameraPerMonitor /\ OneDirectCamera /\ VerifiedUnderVerified
  BY <1>1 DEF IInv, TypeOK, UsedAreThere, Linked, Rows, Vms
<1>3. ASSUME NEW k \in Selectable(v), vmses' = Edited(v, k, vmses[v].verified),
             UNCHANGED <<cameras, streams>>
      PROVE  IInv' /\ Kept
  <2>1. /\ vmses' \in [Vmses -> Vms \cup {None}] /\ v \in Rows(vmses')
        /\ vmses'[v].connector = k /\ vmses'[v].verified = vmses[v].verified
        /\ vmses'[v].retyped = vmses[v].retyped
        /\ k \in Rows(connectors) /\ connectors[k].direct
        /\ \A w \in Vmses \ {v} : vmses'[w] = vmses[w]
    BY <1>1, <1>2, <1>3, EditedVms
  <2>2. /\ \A c \in Rows(cameras) : c \in CamerasOf({v}) <=> cameras[c].vms = v
        /\ cameras' = cameras /\ streams' = streams
    BY <1>3 DEF CamerasOf
  <2>3. LocallyRight(v)
    <3>1. \A c \in Rows(cameras) :
            cameras[c].vms = v /\ cameras[c].verified /\ ~ vmses[v].retyped => vmses[v].verified
      BY <1>2 DEF VerifiedUnderVerified
    <3>2. ~ vmses[v].retyped =>
            \A c, d \in Rows(cameras) : cameras[c].vms = v /\ cameras[d].vms = v => c = d
      BY <1>1, <1>2, <2>2 DEF OneDirectCamera
    <3>3. \A c, d \in Rows(cameras) :
            /\ c # d /\ cameras[c].vms = v /\ cameras[d].vms = v /\ cameras[c].camera_id # ByHand
            => cameras[c].camera_id # cameras[d].camera_id
      BY <1>2 DEF OneCameraPerMonitor
    <3>4. QED
      BY <2>1, <2>2, <3>1, <3>2, <3>3 DEF LocallyRight
  <2>4. Rebuilt(v)
    BY <1>1, <1>2, <2>1, <2>2, <2>3 DEF Rebuilt
  <2>5. QED
    BY <2>4, RebuiltKeeps
<1>4. ASSUME NEW k \in Selectable(v), NEW verified \in BOOLEAN,
             vmses' = Edited(v, k, verified), InitDirectIpCamera(v, verified)
      PROVE  IInv' /\ Kept
  <2>1. /\ vmses' \in [Vmses -> Vms \cup {None}] /\ v \in Rows(vmses')
        /\ vmses'[v].connector = k /\ vmses'[v].verified = verified
        /\ vmses'[v].retyped = vmses[v].retyped
        /\ k \in Rows(connectors) /\ connectors[k].direct
        /\ \A w \in Vmses \ {v} : vmses'[w] = vmses[w]
    BY <1>1, <1>4, EditedVms
  <2>2. QED
    BY <1>1, <1>4, <2>1, DirectKeeps
<1>5. QED
  BY <1>3, <1>4 DEF UpdateDirectCamera

-----------------------------------------------------------------------------
(***************************************************************************)
(* Connectors, and what ends with a row above.                             *)
(***************************************************************************)

\* A connector is added, or its type changes: its VMSs are exempt then.
LEMMA ConnectorsKeep ==
  ASSUME IInv, connectors' \in [Connectors -> Connector \cup {None}],
         Rows(connectors) \subseteq Rows(connectors'),
         vmses' \in [Vmses -> Vms \cup {None}], Rows(vmses') = Rows(vmses),
         \A w \in Rows(vmses) :
           /\ vmses'[w].connector = vmses[w].connector
           /\ \/ /\ connectors'[vmses[w].connector] = connectors[vmses[w].connector]
                 /\ vmses'[w] = vmses[w]
              \/ vmses'[w].retyped,
         UNCHANGED <<cameras, streams, uses>>
  PROVE  IInv' /\ Kept
<1>1. TypeOK /\ UsedAreThere /\ Linked /\ OneDirectCamera /\ VerifiedUnderVerified
      /\ OneCameraPerMonitor
  BY DEF IInv
<1>2. TypeOK' /\ UsedAreThere' /\ OneCameraPerMonitor'
  BY <1>1 DEF TypeOK, UsedAreThere, OneCameraPerMonitor
<1>3. Linked'
  BY <1>1 DEF Linked
<1>4. OneDirectCamera'
  <2>1. SUFFICES ASSUME NEW w \in Rows(vmses'), connectors'[vmses'[w].connector].direct,
                        ~ vmses'[w].retyped, NEW c \in CamerasOf({w})', NEW d \in CamerasOf({w})'
                 PROVE  c = d
    BY DEF OneDirectCamera, Direct
  <2>2. /\ connectors'[vmses[w].connector] = connectors[vmses[w].connector]
        /\ vmses'[w] = vmses[w] /\ w \in Rows(vmses)
    BY <2>1
  <2>3. c \in CamerasOf({w}) /\ d \in CamerasOf({w})
    BY DEF CamerasOf
  <2>4. QED
    BY <1>1, <2>1, <2>2, <2>3 DEF OneDirectCamera, Direct
<1>5. VerifiedUnderVerified'
  <2>1. SUFFICES ASSUME NEW c \in Rows(cameras), cameras[c].verified,
                        ~ vmses'[cameras[c].vms].retyped
                 PROVE  vmses'[cameras[c].vms].verified
    BY DEF VerifiedUnderVerified
  <2>2. cameras[c].vms \in Rows(vmses)
    BY <1>1 DEF Linked
  <2>3. vmses'[cameras[c].vms] = vmses[cameras[c].vms]
    BY <2>1, <2>2
  <2>4. QED
    BY <1>1, <2>1, <2>3 DEF VerifiedUnderVerified
<1>6. Kept
  BY <1>1 DEF UsedAreThere, Kept, Rows
<1>7. QED
  BY <1>2, <1>3, <1>4, <1>5, <1>6 DEF IInv

\* CreateConnector.
LEMMA CreateConnectorKeeps ==
  ASSUME IInv, NEW k \in Connectors, CreateConnector(k)
  PROVE  IInv' /\ Kept
<1>1. PICK row \in Connector : connectors' = [connectors EXCEPT ![k] = row]
  BY DEF CreateConnector
<1>2. connectors \in [Connectors -> Connector \cup {None}] /\ None \notin Connector
  BY CatalogueAssumption DEF IInv, TypeOK
<1>3. /\ connectors[k] = None /\ \A w \in Rows(vmses) : vmses[w].connector # k
      /\ UNCHANGED <<vmses, cameras, streams, uses>>
  BY DEF CreateConnector, VmsesOf
<1>4. /\ connectors' \in [Connectors -> Connector \cup {None}]
      /\ \A l \in Connectors \ {k} : connectors'[l] = connectors[l]
  BY <1>1, <1>2
<1>5. Rows(connectors) \subseteq Rows(connectors')
  BY <1>2, <1>3, <1>4 DEF Rows
<1>6. \A w \in Rows(vmses) : connectors'[vmses[w].connector] = connectors[vmses[w].connector]
  <2>1. \A w \in Rows(vmses) : vmses[w].connector \in Connectors
    BY DEF IInv, TypeOK, Vms, Rows
  <2>2. QED
    BY <1>3, <1>4, <2>1
<1>7. vmses' \in [Vmses -> Vms \cup {None}]
  BY <1>3 DEF IInv, TypeOK
<1>8. QED
  BY <1>3, <1>4, <1>5, <1>6, <1>7, ConnectorsKeep

\* UpdateConnector.
LEMMA UpdateConnectorKeeps ==
  ASSUME IInv, NEW k \in Connectors, UpdateConnector(k)
  PROVE  IInv' /\ Kept
<1> DEFINE row == [connectors[k] EXCEPT !.direct = ~ @]
           changed(w) == [vmses[w] EXCEPT !.retyped = TRUE]
<1>1. /\ connectors \in [Connectors -> Connector \cup {None}] /\ None \notin Connector
      /\ vmses \in [Vmses -> Vms \cup {None}] /\ None \notin Vms
      /\ \A w \in Rows(vmses) : /\ w \in Vmses /\ vmses[w] \in Vms
                                /\ vmses[w].connector \in Connectors
  BY CatalogueAssumption DEF IInv, TypeOK, Vms, Rows
<1>2. /\ k \in Rows(connectors) /\ connectors' = [connectors EXCEPT ![k] = row]
      /\ UNCHANGED <<cameras, streams, uses>>
      /\ vmses' = [w \in Vmses |-> IF w \in VmsesOf(k) THEN changed(w) ELSE vmses[w]]
  BY <1>1 DEF UpdateConnector
<1>3. row \in Connector
  BY <1>1, <1>2 DEF Connector, Rows
<1>4. \A w \in Rows(vmses) : /\ changed(w) \in Vms /\ changed(w).retyped
                             /\ changed(w).connector = vmses[w].connector
  BY <1>1 DEF Vms
<1>5. /\ VmsesOf(k) \subseteq Rows(vmses)
      /\ \A w \in Rows(vmses) : w \in VmsesOf(k) <=> vmses[w].connector = k
  BY DEF VmsesOf
<1> HIDE DEF row, changed
<1>6. /\ connectors' \in [Connectors -> Connector \cup {None}] /\ connectors'[k] # None
      /\ \A l \in Connectors \ {k} : connectors'[l] = connectors[l]
  BY <1>1, <1>2, <1>3
<1>7. Rows(connectors) \subseteq Rows(connectors')
  BY <1>1, <1>6 DEF Rows
<1>8. /\ vmses' \in [Vmses -> Vms \cup {None}] /\ Rows(vmses') = Rows(vmses)
  <2>1. vmses' \in [Vmses -> Vms \cup {None}]
    BY <1>1, <1>2, <1>4, <1>5
  <2>2. \A w \in Vmses : (vmses'[w] = None) = (vmses[w] = None)
    <3>1. \A w \in VmsesOf(k) : vmses'[w] \in Vms /\ vmses[w] # None
      BY <1>1, <1>2, <1>4, <1>5 DEF Rows
    <3>2. \A w \in Vmses \ VmsesOf(k) : vmses'[w] = vmses[w]
      BY <1>2
    <3>3. QED
      BY <1>1, <3>1, <3>2
  <2>3. QED
    BY <1>1, <2>1, <2>2 DEF Rows
<1>9. \A w \in Rows(vmses) :
        /\ vmses'[w].connector = vmses[w].connector
        /\ \/ /\ connectors'[vmses[w].connector] = connectors[vmses[w].connector]
              /\ vmses'[w] = vmses[w]
           \/ vmses'[w].retyped
  <2>1. TAKE w \in Rows(vmses)
  <2>2. w \in Vmses /\ vmses[w].connector \in Connectors
    BY <1>1
  <2>3. CASE vmses[w].connector = k
    <3>1. vmses'[w] = changed(w)
      BY <1>2, <1>5, <2>2, <2>3
    <3>2. QED
      BY <1>4, <3>1
  <2>4. CASE vmses[w].connector # k
    BY <1>2, <1>5, <1>6, <2>2, <2>4
  <2>5. QED
    BY <2>3, <2>4
<1>10. QED
  BY <1>2, <1>6, <1>7, <1>8, <1>9, ConnectorsKeep

\* The VMSs of V end with all that hangs on them, of which nothing is in use.
LEMMA CascadeKeeps ==
  ASSUME IInv, NEW V, NEW K, ~ InUse(CamerasOf(V)), DestroyVmses(V),
         connectors' \in [Connectors -> Connector \cup {None}],
         \A k \in Rows(connectors) \ K : connectors'[k] = connectors[k],
         \A w \in Rows(vmses) : vmses[w].connector \in K => w \in V
  PROVE  IInv' /\ Kept
<1> DEFINE C == CamerasOf(V)
           S == StreamsOf(C)
<1>1. TypeOK /\ UsedAreThere /\ Linked /\ OneDirectCamera /\ VerifiedUnderVerified
      /\ OneCameraPerMonitor
  BY DEF IInv
<1>2. /\ vmses' = Ended(vmses, V) /\ cameras' = Ended(cameras, C)
      /\ streams' = Ended(streams, S) /\ uses' = uses \ S /\ S \cap uses = {}
  BY DEF DestroyVmses, DestroyCameras, InUse
<1>3. /\ \A c \in Rows(cameras) : c \in C <=> cameras[c].vms \in V
      /\ \A s \in Rows(streams) : s \in S <=> streams[s].camera \in C
  BY DEF CamerasOf, StreamsOf
<1> HIDE DEF C, S
<1>4. /\ vmses' \in [Vmses -> Vms \cup {None}] /\ Rows(vmses') = Rows(vmses) \ V
      /\ \A w \in Rows(vmses') : vmses'[w] = vmses[w]
  BY <1>1, <1>2 DEF TypeOK, Ended, Rows
<1>5. /\ cameras' \in [Cameras -> Camera \cup {None}] /\ Rows(cameras') = Rows(cameras) \ C
      /\ \A c \in Rows(cameras') : cameras'[c] = cameras[c]
  BY <1>1, <1>2 DEF TypeOK, Ended, Rows
<1>6. /\ streams' \in [Streams -> Stream \cup {None}] /\ Rows(streams') = Rows(streams) \ S
      /\ \A s \in Rows(streams') : streams'[s] = streams[s]
  BY <1>1, <1>2 DEF TypeOK, Ended, Rows
<1>7. TypeOK' /\ UsedAreThere'
  BY <1>1, <1>2, <1>4, <1>5, <1>6 DEF TypeOK, UsedAreThere
<1>8. Kept
  <2>1. uses \subseteq Rows(streams')
    BY <1>1, <1>2, <1>6 DEF UsedAreThere
  <2>2. \A s \in Rows(streams') : streams'[s] # None
    BY DEF Rows
  <2>3. QED
    BY <2>1, <2>2 DEF Kept
<1>9. \A w \in Rows(vmses') : /\ vmses'[w].connector \in Rows(connectors')
                              /\ connectors'[vmses'[w].connector]
                                   = connectors[vmses[w].connector]
  <2>1. TAKE w \in Rows(vmses')
  <2>2. /\ vmses[w].connector \in Rows(connectors) /\ vmses[w].connector \notin K
        /\ vmses'[w] = vmses[w]
    BY <1>1, <1>4 DEF Linked
  <2>3. connectors'[vmses[w].connector] = connectors[vmses[w].connector]
    BY <2>2
  <2>4. vmses[w].connector \in Connectors /\ connectors[vmses[w].connector] # None
    BY <1>1, <2>2 DEF Rows, TypeOK
  <2>5. vmses[w].connector \in Rows(connectors')
    BY <2>3, <2>4 DEF Rows
  <2>6. QED
    BY <2>2, <2>3, <2>5
<1>10. \A c \in Rows(cameras') : cameras'[c].vms \in Rows(vmses')
  BY <1>1, <1>3, <1>4, <1>5 DEF Linked
<1>11. Linked'
  BY <1>1, <1>3, <1>5, <1>6, <1>9, <1>10 DEF Linked
<1>12. OneDirectCamera'
  BY <1>1, <1>4, <1>5, <1>9 DEF OneDirectCamera, Direct, CamerasOf
<1>13. VerifiedUnderVerified'
  BY <1>1, <1>4, <1>5, <1>9, <1>10 DEF VerifiedUnderVerified
<1>14. OneCameraPerMonitor'
  BY <1>1, <1>5 DEF OneCameraPerMonitor
<1>15. QED
  BY <1>7, <1>8, <1>11, <1>12, <1>13, <1>14 DEF IInv

\* DestroyConnector.
LEMMA DestroyConnectorKeeps ==
  ASSUME IInv, NEW k \in Connectors, DestroyConnector(k)
  PROVE  IInv' /\ Kept
<1>1. connectors \in [Connectors -> Connector \cup {None}]
  BY DEF IInv, TypeOK
<1>2. /\ ~ InUse(CamerasOf(VmsesOf(k))) /\ DestroyVmses(VmsesOf(k))
      /\ connectors' = Ended(connectors, {k})
  BY DEF DestroyConnector
<1>3. /\ connectors' \in [Connectors -> Connector \cup {None}]
      /\ \A l \in Rows(connectors) \ {k} : connectors'[l] = connectors[l]
  BY <1>1, <1>2 DEF Ended, Rows
<1>4. \A w \in Rows(vmses) : vmses[w].connector \in {k} => w \in VmsesOf(k)
  BY DEF VmsesOf
<1>5. QED
  BY <1>2, <1>3, <1>4, CascadeKeeps

\* DestroyVms.
LEMMA DestroyVmsKeeps ==
  ASSUME IInv, NEW v \in Vmses, DestroyVms(v)
  PROVE  IInv' /\ Kept
<1> DEFINE K == {}
<1>1. /\ connectors' \in [Connectors -> Connector \cup {None}]
      /\ \A k \in Rows(connectors) \ K : connectors'[k] = connectors[k]
  BY DEF IInv, TypeOK, DestroyVms
<1>2. ~ InUse(CamerasOf({v})) /\ DestroyVmses({v})
  BY DEF DestroyVms
<1>3. \A w \in Rows(vmses) : vmses[w].connector \in K => w \in {v}
  OBVIOUS
<1> HIDE DEF K
<1>4. QED
  BY <1>1, <1>2, <1>3, CascadeKeeps

-----------------------------------------------------------------------------
(***************************************************************************)
(* Cameras, streams and their use.                                         *)
(***************************************************************************)

\* When the VMSs stay, a camera page needs these things only.
LEMMA CameraPageKeeps ==
  ASSUME IInv, NEW v \in Rows(vmses), UNCHANGED <<connectors, vmses>>,
         cameras' \in [Cameras -> Camera \cup {None}],
         streams' \in [Streams -> Stream \cup {None}],
         \A c \in Rows(cameras) : cameras[c].vms # v => cameras'[c] = cameras[c],
         \A c \in Rows(cameras') : cameras'[c].vms # v => cameras'[c] = cameras[c],
         LocallyRight(v),
         \A s \in Rows(streams') : ~ streams'[s].stale => streams'[s].camera \in Rows(cameras'),
         uses' \subseteq uses, uses \subseteq Rows(streams')
  PROVE  IInv' /\ Kept
<1>1. vmses \in [Vmses -> Vms \cup {None}] /\ v \in Vmses
      /\ vmses[v].connector \in Rows(connectors)
  BY DEF IInv, TypeOK, Rows, Linked
<1>2. Rebuilt(v)
  BY <1>1 DEF Rebuilt
<1>3. QED
  BY <1>1, <1>2, RebuiltKeeps

\* CreateCamera.
LEMMA CreateCameraKeeps ==
  ASSUME IInv, NEW v \in Vmses, CreateCamera(v)
  PROVE  IInv' /\ Kept
<1> DEFINE c == Head(FreshCameras)
           row == NewCamera(v, ByHand, FALSE)
<1>1. /\ v \in Rows(vmses) /\ ~ connectors[vmses[v].connector].direct
      /\ cameras' = [cameras EXCEPT ![c] = row] /\ UNCHANGED <<connectors, vmses, streams, uses>>
  BY DEF CreateCamera, Direct
<1>2. /\ cameras \in [Cameras -> Camera \cup {None}] /\ uses \subseteq Rows(streams)
      /\ streams \in [Streams -> Stream \cup {None}]
      /\ \A s \in Rows(streams) : ~ streams[s].stale => streams[s].camera \in Rows(cameras)
      /\ OneCameraPerMonitor /\ VerifiedUnderVerified
  BY DEF IInv, TypeOK, UsedAreThere, Linked
<1>3. c \in Cameras /\ c \notin Rows(cameras)
  BY FirstIsFree DEF CreateCamera
<1>4. row \in Camera /\ row # None /\ row.vms = v /\ row.camera_id = ByHand /\ ~ row.verified
  <2>1. row \in Camera /\ row.vms = v /\ row.camera_id = ByHand /\ ~ row.verified
    BY DEF NewCamera, Camera
  <2> HIDE DEF row
  <2>2. QED
    BY <2>1, CatalogueAssumption
<1> HIDE DEF c, row
<1>5. /\ cameras' \in [Cameras -> Camera \cup {None}] /\ cameras'[c] = row
      /\ \A d \in Cameras \ {c} : cameras'[d] = cameras[d]
  BY <1>1, <1>2, <1>3, <1>4
<1>6. /\ \A d \in Rows(cameras) : d \in Rows(cameras') /\ cameras'[d] = cameras[d]
      /\ \A d \in Rows(cameras') : d # c => d \in Rows(cameras) /\ cameras'[d] = cameras[d]
  BY <1>2, <1>3, <1>5 DEF Rows
<1>7. LocallyRight(v)
  <2> DEFINE own == {d \in Rows(cameras') : cameras'[d].vms = v}
             k == connectors[vmses'[v].connector]
  <2>1. \A d \in own : cameras'[d].verified /\ ~ vmses'[v].retyped => vmses'[v].verified
    <3>1. SUFFICES ASSUME NEW d \in own, cameras'[d].verified, ~ vmses'[v].retyped
                   PROVE  vmses'[v].verified
      OBVIOUS
    <3>2. d \in Rows(cameras) /\ cameras[d].vms = v /\ cameras[d].verified
      BY <1>4, <1>5, <1>6, <3>1
    <3>3. QED
      BY <1>1, <1>2, <3>1, <3>2 DEF VerifiedUnderVerified
  <2>2. \A d, e \in own : d # e /\ cameras'[d].camera_id # ByHand
                            => cameras'[d].camera_id # cameras'[e].camera_id
    <3>1. SUFFICES ASSUME NEW d \in own, NEW e \in own, d # e, cameras'[d].camera_id # ByHand
                   PROVE  cameras'[d].camera_id # cameras'[e].camera_id
      OBVIOUS
    <3>2. d \in Rows(cameras) /\ cameras'[d] = cameras[d]
      BY <1>4, <1>5, <1>6, <3>1
    <3>3. CASE e = c
      BY <1>4, <1>5, <3>1, <3>3
    <3>4. CASE e # c
      BY <1>2, <1>6, <3>1, <3>2, <3>4 DEF OneCameraPerMonitor
    <3>5. QED
      BY <3>3, <3>4
  <2>3. QED
    BY <1>1, <2>1, <2>2 DEF LocallyRight
<1>8. \A d \in Rows(cameras') : cameras'[d].vms # v => cameras'[d] = cameras[d]
  BY <1>4, <1>5, <1>6
<1>9. QED
  BY <1>1, <1>2, <1>5, <1>6, <1>7, <1>8, CameraPageKeeps

\* UpdateCamera.
LEMMA UpdateCameraKeeps ==
  ASSUME IInv, NEW c \in Cameras, UpdateCamera(c)
  PROVE  IInv' /\ Kept
<1> DEFINE row == [cameras[c] EXCEPT !.camera_id = ByHand]
           v == cameras[c].vms
<1>1. /\ c \in Rows(cameras) /\ UNCHANGED <<connectors, vmses, streams, uses>>
      /\ cameras' = [cameras EXCEPT ![c].camera_id = ByHand]
  BY DEF UpdateCamera
<1>2. /\ cameras \in [Cameras -> Camera \cup {None}] /\ uses \subseteq Rows(streams)
      /\ streams \in [Streams -> Stream \cup {None}]
      /\ \A s \in Rows(streams) : ~ streams[s].stale => streams[s].camera \in Rows(cameras)
      /\ OneCameraPerMonitor /\ VerifiedUnderVerified /\ OneDirectCamera
  BY DEF IInv, TypeOK, UsedAreThere, Linked
<1>3. cameras[c] \in Camera /\ v \in Rows(vmses)
  BY <1>1, <1>2 DEF Rows, IInv, Linked
<1>4. /\ row \in Camera /\ row # None /\ row.vms = v /\ row.camera_id = ByHand
      /\ row.verified = cameras[c].verified
  BY <1>3, CatalogueAssumption DEF Camera
<1>5. cameras' = [cameras EXCEPT ![c] = row]
  BY <1>1, <1>2
<1> HIDE DEF row
<1>6. /\ cameras' \in [Cameras -> Camera \cup {None}] /\ cameras'[c] = row
      /\ \A d \in Cameras \ {c} : cameras'[d] = cameras[d]
  BY <1>2, <1>4, <1>5
<1>7. /\ Rows(cameras') = Rows(cameras)
      /\ \A d \in Rows(cameras) : d # c => cameras'[d] = cameras[d]
      /\ \A d \in Rows(cameras) : /\ cameras'[d].vms = cameras[d].vms
                                  /\ cameras'[d].verified = cameras[d].verified
  <2>1. \A d \in Cameras : (cameras'[d] = None) = (cameras[d] = None)
    BY <1>3, <1>4, <1>6, CatalogueAssumption
  <2>2. Rows(cameras') = Rows(cameras)
    BY <1>2, <1>6, <2>1 DEF Rows
  <2>3. \A d \in Rows(cameras) : d \in Cameras
    BY <1>2 DEF Rows
  <2>4. QED
    BY <1>4, <1>6, <2>2, <2>3
<1>8. LocallyRight(v)
  <2> DEFINE own == {d \in Rows(cameras') : cameras'[d].vms = v}
             k == connectors[vmses'[v].connector]
  <2>1. \A d \in own : cameras'[d].verified /\ ~ vmses'[v].retyped => vmses'[v].verified
    BY <1>1, <1>2, <1>7 DEF VerifiedUnderVerified
  <2>2. \A d, e \in own : d # e /\ cameras'[d].camera_id # ByHand
                            => cameras'[d].camera_id # cameras'[e].camera_id
    <3>1. SUFFICES ASSUME NEW d \in own, NEW e \in own, d # e, cameras'[d].camera_id # ByHand
                   PROVE  cameras'[d].camera_id # cameras'[e].camera_id
      OBVIOUS
    <3>2. d # c /\ d \in Rows(cameras) /\ cameras'[d] = cameras[d]
      BY <1>4, <1>6, <1>7, <3>1
    <3>3. CASE e = c
      BY <1>4, <1>6, <3>1, <3>3
    <3>4. CASE e # c
      BY <1>2, <1>7, <3>1, <3>2, <3>4 DEF OneCameraPerMonitor
    <3>5. QED
      BY <3>3, <3>4
  <2>3. k.direct /\ ~ vmses'[v].retyped => \A d, e \in own : d = e
    BY <1>1, <1>2, <1>3, <1>7 DEF OneDirectCamera, Direct, CamerasOf
  <2>4. QED
    BY <2>1, <2>2, <2>3 DEF LocallyRight
<1>9. \A d \in Rows(cameras') : cameras'[d].vms # v => cameras'[d] = cameras[d]
  BY <1>4, <1>6, <1>7
<1>10. \A d \in Rows(cameras) : cameras[d].vms # v => cameras'[d] = cameras[d]
  BY <1>7
<1> HIDE DEF v
<1>11. QED
  BY <1>1, <1>2, <1>3, <1>6, <1>7, <1>8, <1>9, <1>10, CameraPageKeeps

\* DestroyCamera.
LEMMA DestroyCameraKeeps ==
  ASSUME IInv, NEW c \in Cameras, DestroyCamera(c)
  PROVE  IInv' /\ Kept
<1> DEFINE S == StreamsOf({c})
           v == cameras[c].vms
<1>1. /\ c \in Rows(cameras) /\ UNCHANGED <<connectors, vmses>> /\ S \cap uses = {}
      /\ cameras' = Ended(cameras, {c}) /\ streams' = Ended(streams, S) /\ uses' = uses \ S
  BY DEF DestroyCamera, DestroyCameras, InUse
<1>2. /\ cameras \in [Cameras -> Camera \cup {None}] /\ uses \subseteq Rows(streams)
      /\ streams \in [Streams -> Stream \cup {None}]
      /\ \A s \in Rows(streams) : ~ streams[s].stale => streams[s].camera \in Rows(cameras)
      /\ OneCameraPerMonitor /\ VerifiedUnderVerified /\ OneDirectCamera
  BY DEF IInv, TypeOK, UsedAreThere, Linked
<1>3. v \in Rows(vmses) /\ \A s \in Rows(streams) : s \in S <=> streams[s].camera = c
  BY <1>1 DEF IInv, Linked, StreamsOf
<1> HIDE DEF S, v
<1>4. /\ cameras' \in [Cameras -> Camera \cup {None}] /\ Rows(cameras') = Rows(cameras) \ {c}
      /\ \A d \in Rows(cameras') : cameras'[d] = cameras[d]
  BY <1>1, <1>2 DEF Ended, Rows
<1>5. /\ streams' \in [Streams -> Stream \cup {None}] /\ Rows(streams') = Rows(streams) \ S
      /\ \A s \in Rows(streams') : streams'[s] = streams[s]
  BY <1>1, <1>2 DEF Ended, Rows
<1>6. LocallyRight(v)
  <2> DEFINE own == {d \in Rows(cameras') : cameras'[d].vms = v}
             k == connectors[vmses'[v].connector]
  <2>1. \A d \in own : d \in Rows(cameras) /\ cameras[d].vms = v /\ cameras'[d] = cameras[d]
    BY <1>4
  <2>2. \A d \in own : cameras'[d].verified /\ ~ vmses'[v].retyped => vmses'[v].verified
    BY <1>1, <1>2, <2>1 DEF VerifiedUnderVerified
  <2>3. \A d, e \in own : d # e /\ cameras'[d].camera_id # ByHand
                            => cameras'[d].camera_id # cameras'[e].camera_id
    BY <1>2, <2>1 DEF OneCameraPerMonitor
  <2>4. k.direct /\ ~ vmses'[v].retyped => \A d, e \in own : d = e
    <3>1. SUFFICES ASSUME k.direct, ~ vmses'[v].retyped, NEW d \in own, NEW e \in own
                   PROVE  d = e
      OBVIOUS
    <3>2. d \in CamerasOf({v}) /\ e \in CamerasOf({v})
      BY <2>1 DEF CamerasOf
    <3>3. k = connectors[vmses[v].connector] /\ ~ vmses[v].retyped
      BY <1>1, <3>1
    <3>4. QED
      BY <1>2, <1>3, <3>1, <3>2, <3>3 DEF OneDirectCamera, Direct
  <2>5. QED
    BY <2>2, <2>3, <2>4 DEF LocallyRight
<1>7. \A d \in Rows(cameras) : cameras[d].vms # v => cameras'[d] = cameras[d]
  BY <1>4 DEF v
<1>8. \A s \in Rows(streams') : ~ streams'[s].stale => streams'[s].camera \in Rows(cameras')
  BY <1>2, <1>3, <1>4, <1>5
<1>9. uses' \subseteq uses /\ uses \subseteq Rows(streams')
  BY <1>1, <1>2, <1>5
<1>10. \A d \in Rows(cameras') : cameras'[d].vms # v => cameras'[d] = cameras[d]
  BY <1>4
<1>11. QED
  BY <1>1, <1>3, <1>4, <1>5, <1>6, <1>7, <1>8, <1>9, <1>10, CameraPageKeeps

\* When only streams and uses change.
LEMMA StreamPageKeeps ==
  ASSUME IInv, UNCHANGED <<connectors, vmses, cameras>>,
         streams' \in [Streams -> Stream \cup {None}],
         \A s \in Rows(streams') : ~ streams'[s].stale => streams'[s].camera \in Rows(cameras),
         uses' \subseteq Rows(streams'), uses \subseteq Rows(streams')
  PROVE  IInv' /\ Kept
<1>1. TypeOK /\ UsedAreThere /\ Linked /\ OneDirectCamera /\ VerifiedUnderVerified
      /\ OneCameraPerMonitor
  BY DEF IInv
<1>2. TypeOK' /\ UsedAreThere'
  BY <1>1 DEF TypeOK, UsedAreThere, Rows
<1>3. Linked'
  BY <1>1 DEF Linked
<1>4. OneDirectCamera' /\ VerifiedUnderVerified' /\ OneCameraPerMonitor'
  BY <1>1 DEF OneDirectCamera, VerifiedUnderVerified, OneCameraPerMonitor, Direct, CamerasOf
<1>5. Kept
  BY DEF Kept, Rows
<1>6. QED
  BY <1>2, <1>3, <1>4, <1>5 DEF IInv

\* CreateStream.
LEMMA CreateStreamKeeps ==
  ASSUME IInv, NEW c \in Cameras, CreateStream(c)
  PROVE  IInv' /\ Kept
<1>1. /\ streams \in [Streams -> Stream \cup {None}] /\ uses \subseteq Rows(streams)
      /\ \A s \in Rows(streams) : ~ streams[s].stale => streams[s].camera \in Rows(cameras)
  BY DEF IInv, TypeOK, UsedAreThere, Linked
<1>2. PICK verified \in BOOLEAN :
        streams' = With(streams, FreshStreams(streams), <<NewStream(c, verified, FALSE)>>)
  BY DEF CreateStream
<1> DEFINE new == <<NewStream(c, verified, FALSE)>>
           S == Streams \ Rows(streams)
<1>3. NewStream(c, verified, FALSE) \in Stream /\ NewStream(c, verified, FALSE).camera = c
  BY DEF NewStream, Stream
<1>4. new \in Seq(Stream) /\ Len(new) = 1 /\ \A n \in DOMAIN new : new[n].camera = c
  <2> DEFINE row == NewStream(c, verified, FALSE)
  <2>1. row \in Stream /\ row.camera = c /\ new = <<row>>
    BY <1>3
  <2> HIDE DEF row, new
  <2>2. new \in Seq(Stream) /\ Len(new) = 1
    BY <2>1
  <2>3. \A n \in DOMAIN new : new[n] = row
    BY <2>1
  <2>4. QED
    BY <2>1, <2>2, <2>3
<1>5. S # {} /\ IsFiniteSet(S)
  BY <1>1, CatalogueAssumption, FS_Subset DEF CreateStream, Rows
<1>6. Len(FreshStreams(streams)) >= 1
  <2> HIDE DEF S
  <2>1. SetToSeq(S) \in Seq(S) /\ SetToSeq(S) # <<>>
    BY <1>5, SetToSeqLists
  <2>2. Len(SetToSeq(S)) >= 1
    BY <2>1
  <2>3. QED
    BY <2>2 DEF S, FreshStreams
<1>7. /\ FreshStreams(streams) \in Seq(Streams \ Rows(streams))
      /\ \A i, j \in 1 .. Len(FreshStreams(streams)) :
           FreshStreams(streams)[i] = FreshStreams(streams)[j] => i = j
  BY FreshStreamsAre
<1> HIDE DEF new
<1>8. Fit(Streams, Stream, streams, FreshStreams(streams), new)
  <2>1. Len(FreshStreams(streams)) \in Nat
    BY <1>7
  <2>2. Len(new) <= Len(FreshStreams(streams))
    BY <1>4, <1>6, <2>1
  <2>3. QED
    BY <1>1, <1>4, <1>7, <2>2, CatalogueAssumption DEF Fit
<1>9. Filled(Streams, Stream, streams, FreshStreams(streams), new, streams')
  BY <1>2, <1>8, WithRows DEF new
<1>10. c \in Rows(cameras) /\ UNCHANGED <<connectors, vmses, cameras, uses>>
  BY DEF CreateStream
<1>11. /\ streams' \in [Streams -> Stream \cup {None}] /\ Rows(streams) \subseteq Rows(streams')
       /\ \A s \in Rows(streams') : ~ streams'[s].stale => streams'[s].camera \in Rows(cameras)
  BY <1>1, <1>4, <1>9, <1>10 DEF Filled
<1>12. QED
  BY <1>1, <1>10, <1>11, StreamPageKeeps

\* UpdateStream.
LEMMA UpdateStreamKeeps ==
  ASSUME IInv, NEW s \in Streams, UpdateStream(s)
  PROVE  IInv' /\ Kept
<1>1. /\ streams \in [Streams -> Stream \cup {None}] /\ uses \subseteq Rows(streams)
      /\ \A t \in Rows(streams) : ~ streams[t].stale => streams[t].camera \in Rows(cameras)
  BY DEF IInv, TypeOK, UsedAreThere, Linked
<1>2. PICK verified \in BOOLEAN : streams' = Marked(streams, {s}, verified)
  BY DEF UpdateStream
<1>3. {s} \subseteq Rows(streams) /\ UNCHANGED <<connectors, vmses, cameras, uses>>
  BY DEF UpdateStream, OnPage
<1>4. StreamsMarked(streams, streams')
  BY <1>1, <1>2, <1>3, MarkedStreams
<1>5. /\ streams' \in [Streams -> Stream \cup {None}] /\ Rows(streams') = Rows(streams)
      /\ \A t \in Rows(streams') : ~ streams'[t].stale => streams'[t].camera \in Rows(cameras)
  BY <1>1, <1>4 DEF StreamsMarked
<1>6. QED
  BY <1>1, <1>3, <1>5, StreamPageKeeps

\* DestroyStream.
LEMMA DestroyStreamKeeps ==
  ASSUME IInv, NEW s \in Streams, DestroyStream(s)
  PROVE  IInv' /\ Kept
<1>1. /\ streams \in [Streams -> Stream \cup {None}] /\ uses \subseteq Rows(streams)
      /\ \A t \in Rows(streams) : ~ streams[t].stale => streams[t].camera \in Rows(cameras)
  BY DEF IInv, TypeOK, UsedAreThere, Linked
<1>2. /\ s \notin uses /\ streams' = Ended(streams, {s})
      /\ UNCHANGED <<connectors, vmses, cameras, uses>>
  BY DEF DestroyStream
<1>3. /\ streams' \in [Streams -> Stream \cup {None}] /\ Rows(streams') = Rows(streams) \ {s}
      /\ \A t \in Rows(streams') : streams'[t] = streams[t]
  BY <1>1, <1>2 DEF Ended, Rows
<1>4. uses \subseteq Rows(streams')
      /\ \A t \in Rows(streams') : ~ streams'[t].stale => streams'[t].camera \in Rows(cameras)
  BY <1>1, <1>2, <1>3
<1>5. QED
  BY <1>2, <1>3, <1>4, StreamPageKeeps

\* The instances' streams.
LEMMA InstanceStreamsKeep ==
  ASSUME IInv, NEW s \in Streams, CreateInstanceStream(s) \/ DestroyInstanceStream(s)
  PROVE  IInv' /\ Kept
<1>1. /\ streams \in [Streams -> Stream \cup {None}] /\ uses \subseteq Rows(streams)
      /\ \A t \in Rows(streams) : ~ streams[t].stale => streams[t].camera \in Rows(cameras)
  BY DEF IInv, TypeOK, UsedAreThere, Linked
<1>2. uses' \subseteq Rows(streams) /\ UNCHANGED <<connectors, vmses, cameras, streams>>
  BY <1>1 DEF CreateInstanceStream, DestroyInstanceStream
<1>3. QED
  BY <1>1, <1>2, StreamPageKeeps

-----------------------------------------------------------------------------
(***************************************************************************)
(* Every step of the specification, and the theorems.                      *)
(***************************************************************************)

\* No step breaks the invariant or ends what is in use.
LEMMA StepKeeps ==
  ASSUME IInv, [Next]_vars
  PROVE  IInv' /\ Kept
<1>1. CASE UNCHANGED vars
  <2>1. IInv'
    BY <1>1 DEF vars, IInv, TypeOK, UsedAreThere, Linked, OneDirectCamera, Direct, CamerasOf,
                VerifiedUnderVerified, OneCameraPerMonitor
  <2>2. Kept
    BY <1>1 DEF vars, IInv, UsedAreThere, Rows, Kept
  <2>3. QED
    BY <2>1, <2>2
<1>2. ASSUME NEW k \in Connectors, CreateConnector(k) \/ UpdateConnector(k) \/ DestroyConnector(k)
      PROVE  IInv' /\ Kept
  BY <1>2, CreateConnectorKeeps, UpdateConnectorKeeps, DestroyConnectorKeeps
<1>3. ASSUME NEW k \in Connectors, NEW v \in Vmses,
             CreateDirectCamera(v, k) \/ \E type \in Types : CreateVms(v, k, type)
      PROVE  IInv' /\ Kept
  BY <1>3, CreateDirectKeeps, CreateVmsKeeps
<1>4. ASSUME NEW v \in Vmses,
             UpdateVms(v) \/ DestroyVms(v) \/ UpdateDirectCamera(v) \/ CreateCamera(v)
      PROVE  IInv' /\ Kept
  BY <1>4, UpdateVmsKeeps, DestroyVmsKeeps, UpdateDirectKeeps, CreateCameraKeeps
<1>5. ASSUME NEW c \in Cameras, UpdateCamera(c) \/ DestroyCamera(c) \/ CreateStream(c)
      PROVE  IInv' /\ Kept
  BY <1>5, UpdateCameraKeeps, DestroyCameraKeeps, CreateStreamKeeps
<1>6. ASSUME NEW s \in Streams, UpdateStream(s) \/ DestroyStream(s)
      PROVE  IInv' /\ Kept
  BY <1>6, UpdateStreamKeeps, DestroyStreamKeeps
<1>7. ASSUME NEW s \in Streams, CreateInstanceStream(s) \/ DestroyInstanceStream(s)
      PROVE  IInv' /\ Kept
  BY <1>7, InstanceStreamsKeep
<1>8. QED
  BY <1>1, <1>2, <1>3, <1>4, <1>5, <1>6, <1>7 DEF Next

\* It holds while there are no rows.
LEMMA CatalogueStarts == Init => IInv
<1>1. SUFFICES ASSUME Init PROVE IInv
  OBVIOUS
<1>2. TypeOK
  BY <1>1 DEF Init, TypeOK
<1>3. Rows(vmses) = {} /\ Rows(cameras) = {} /\ Rows(streams) = {} /\ uses = {}
  BY <1>1 DEF Init, Rows
<1>4. QED
  BY <1>2, <1>3 DEF IInv, UsedAreThere, Linked, OneDirectCamera, VerifiedUnderVerified,
                    OneCameraPerMonitor

(***************************************************************************)
(* The inductive invariant of the pages: types, references, marks and      *)
(* monitors are right after any sequence of requests.                      *)
(***************************************************************************)
THEOREM CatalogueInvariant == Spec => []IInv
<1>1. IInv /\ [Next]_vars => IInv'
  BY StepKeeps
<1>2. QED
  BY <1>1, CatalogueStarts, PTL DEF Spec

(***************************************************************************)
(* Rows have the columns that the pages write.                             *)
(***************************************************************************)
THEOREM CatalogueTypeCorrect == Spec => []TypeOK
<1>1. IInv => TypeOK
  BY DEF IInv
<1>2. QED
  BY <1>1, CatalogueInvariant, PTL

(***************************************************************************)
(* A stream that the form of an instance offers has a camera, a VMS and a  *)
(* connector, so that the server's joins find it; the streams added to old *)
(* cameras of a ZoneMinder VMS alone do not.                               *)
(***************************************************************************)
THEOREM OfferedIsAlwaysFound == Spec => []OfferedIsFound
<1>1. IInv => OfferedIsFound
  BY DEF IInv, Linked, OfferedIsFound, FindStream
<1>2. QED
  BY <1>1, CatalogueInvariant, PTL

(***************************************************************************)
(* A camera is marked verified under a verified VMS only, whichever step   *)
(* of creating or editing the VMS failed and whichever connector a direct  *)
(* camera was moved to; VMSs that were there when their connector changed  *)
(* its type are excepted.                                                  *)
(***************************************************************************)
THEOREM CamerasVerifiedUnderVerified == Spec => []VerifiedUnderVerified
<1>1. IInv => VerifiedUnderVerified
  BY DEF IInv
<1>2. QED
  BY <1>1, CatalogueInvariant, PTL

(***************************************************************************)
(* The VMS of a direct camera has no second one, but for VMSs that were    *)
(* there when their connector changed its type.                            *)
(***************************************************************************)
THEOREM DirectCamerasAreAlone == Spec => []OneDirectCamera
<1>1. IInv => OneDirectCamera
  BY DEF IInv
<1>2. QED
  BY <1>1, CatalogueInvariant, PTL

(***************************************************************************)
(* However often a VMS is edited and wherever the edit failed, none of its *)
(* cameras is there twice.                                                 *)
(***************************************************************************)
THEOREM CamerasAreThereOnce == Spec => []OneCameraPerMonitor
<1>1. IInv => OneCameraPerMonitor
  BY DEF IInv
<1>2. QED
  BY <1>1, CatalogueInvariant, PTL

(***************************************************************************)
(* No page destroys a stream that an instance uses, directly or through    *)
(* what it belongs to.                                                     *)
(***************************************************************************)
THEOREM StreamsInUseAreKept == Spec => InUseIsKept
<1>1. IInv /\ [Next]_vars => [\A s \in uses : streams'[s] # None]_vars
  BY StepKeeps DEF Kept
<1>2. QED
  BY <1>1, CatalogueInvariant, PTL DEF Spec, InUseIsKept
=============================================================================
