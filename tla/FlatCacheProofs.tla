--------------------------- MODULE FlatCacheProofs ---------------------------
(***************************************************************************)
(* Proofs about the flat-render cache for any viewers, any renderer        *)
(* versions and any number of saves.                                       *)
(*                                                                         *)
(* The argument.  The flat file only ever moves forward: renders of one    *)
(* capture do not overlap, each reads the revision before it draws, and    *)
(* RENDER_VERSION does not go back, so a file replaced between the query   *)
(* of a request and its stream is replaced by a newer drawing.  The        *)
(* markers never run ahead of the file, because they are written after it  *)
(* and only for the revision it shows.  An image is squeezed between the   *)
(* ETag it was sent under (below) and the row (above); a copy a 304        *)
(* confirms has both equal, hence is exactly the current drawing.          *)
(***************************************************************************)
EXTENDS FlatCache, TLAPS

Variants == {"original", "flat"}
Drawings == [rev : 0..MaxRev, by : Versions]

Works ==
  [pc : {"none", "read"}] \cup [pc : {"compose", "write", "mark"}, rev : 0..MaxRev]
    \cup [pc : {"done"}, rev : 0..MaxRev, variant : Variants] \cup {NoRender}

Views ==
  Settled \cup {Waiting} \cup [pc : {"stream"}, rev : 0..MaxRev, variant : Variants]
    \cup [pc : {"open"}, rev : 0..MaxRev, variant : Variants, again : BOOLEAN]

TypeOK ==
  /\ rev \in 0..MaxRev
  /\ blank \subseteq 0..rev
  /\ row \in {"live", "expired", "deleted"}
  /\ mark \in Drawings \cup {Unmarked}
  /\ disk \in [Variants -> Drawings \cup {Original, Absent}]
  /\ version \in Versions
  /\ ServiceTypeOK
  /\ work \in Works
  /\ view \in [Callers -> Views]
  /\ held \in [Callers -> [tag : Drawings \cup {Absent},
                           body : Drawings \cup {Original, Absent}]]

(* Drawing d is of a revision that had something to draw, and of nothing       *)
(* beyond the row and the running renderer.                                    *)
Past(d) ==
  /\ d \in Drawings
  /\ d.rev <= rev /\ d.rev \notin blank /\ d.by <= version

(* The flat file shows revision r by renderer w or something newer; only a     *)
(* dying capture may have lost it.                                             *)
FlatShows(r, w) ==
  IF disk["flat"] = Absent THEN row # "live"
  ELSE disk["flat"].rev >= r /\ disk["flat"].by >= w

FilesOK ==
  /\ disk["original"] \in {Original, Absent}
  /\ disk["original"] = Absent => row # "live"
  /\ disk["flat"] = Absent \/ Past(disk["flat"])

(* The markers never run ahead of the file. *)
MarkBehindFile ==
  mark # Unmarked => Past(mark) /\ FlatShows(mark.rev, mark.by)

(* A job in flight draws a revision at least as new as the file and the        *)
(* markers, and has put it on disk by the time it marks it.                    *)
JobMovesForward ==
  /\ work.pc \in {"compose", "write", "mark"} =>
       /\ work.rev \in 0..rev /\ work.rev \notin blank
       /\ disk["flat"] # Absent => disk["flat"].rev <= work.rev
       /\ mark # Unmarked => mark.rev <= work.rev
  /\ work.pc = "mark" => FlatShows(work.rev, version)

(* What a file is opened or streamed for: the variant that fits the revision,  *)
(* at least as new as the ETag it will be sent under.                          *)
Fits(r, variant) ==
  /\ r \in 0..rev
  /\ IF r \in blank THEN variant = "original"
     ELSE variant = "flat" /\ FlatShows(r, version)

ResultFits ==
  work.pc = "done" =>
    IF work.variant = "none" THEN row # "live" ELSE Fits(work.rev, work.variant)

RequestsFit ==
  \A v \in Callers : view[v].pc \in {"open", "stream"} => Fits(view[v].rev, view[v].variant)

(* A request that is about to open the flat file asks for no newer revision    *)
(* than the job in flight draws: the job may put back a file the purge took.   *)
JobReaches(r) ==
  work.pc \in {"compose", "write", "mark"} /\ r \notin blank => r <= work.rev

JobSuffices ==
  \A v \in Callers : view[v].pc \in {"open", "stream"} => JobReaches(view[v].rev)

MissingIsDying == \A v \in Callers : view[v].pc = "missing" => row # "live"

(* A cached copy lies between its ETag and the row. *)
CopiesSqueezed ==
  \A v \in Callers : LET copy == held[v] IN
    copy.tag # Absent =>
      /\ copy.tag.rev <= rev /\ copy.tag.by <= version
      /\ IF copy.tag.rev \in blank THEN copy.body = Original
         ELSE /\ Past(copy.body)
              /\ copy.body.rev >= copy.tag.rev /\ copy.body.by >= copy.tag.by

IInv ==
  /\ TypeOK
  /\ FilesOK
  /\ MarkBehindFile
  /\ JobMovesForward
  /\ ResultFits
  /\ RequestsFit
  /\ JobSuffices
  /\ MissingIsDying
  /\ CopiesSqueezed
-----------------------------------------------------------------------------
LEMMA InitEstablishes == Init => IInv
<1> SUFFICES ASSUME Init PROVE IInv
  OBVIOUS
<1> USE CacheAssumption DEF Init
<1>1. TypeOK
  <2>1. disk \in [Variants -> Drawings \cup {Original, Absent}]
    BY DEF Variants
  <2>2. ServiceTypeOK
    BY DEF ServiceInit, ServiceTypeOK
  <2>3. work \in Works
    BY DEF Works, NoWork
  <2>4. view \in [Callers -> Views]
    BY DEF Views, Settled
  <2> QED
    BY <2>1, <2>2, <2>3, <2>4 DEF TypeOK
<1>2. FilesOK /\ MarkBehindFile
  BY DEF FilesOK, MarkBehindFile
<1>3. JobMovesForward /\ ResultFits /\ JobSuffices
  BY DEF JobMovesForward, ResultFits, JobSuffices, NoWork, Idle
<1>4. RequestsFit /\ MissingIsDying
  BY DEF RequestsFit, MissingIsDying, Idle
<1>5. CopiesSqueezed
  BY DEF CopiesSqueezed
<1> QED
  BY <1>1, <1>2, <1>3, <1>4, <1>5 DEF IInv

LEMMA SavePreserves ==
  ASSUME IInv, Save
  PROVE  IInv'
<1> USE CacheAssumption DEF IInv, Save
<1>1. /\ rev \in Nat /\ rev' = rev + 1 /\ rev' \in 0..MaxRev
      /\ blank \subseteq blank' /\ blank' \subseteq blank \cup {rev + 1}
  BY DEF TypeOK
<1>2. \A r \in 0..rev : r \in 0..rev' /\ (r \in blank' <=> r \in blank)
  BY <1>1 DEF TypeOK
<1>3. TypeOK'
  BY <1>1 DEF TypeOK, serviceVars, ServiceTypeOK
<1>4. \A d : Past(d) => Past(d)'
  BY <1>1, <1>2 DEF Past, Drawings, TypeOK
<1>5. \A r, w : FlatShows(r, w) => FlatShows(r, w)'
  BY DEF FlatShows
<1>6. \A r, x : Fits(r, x) => Fits(r, x)'
  BY <1>2, <1>5 DEF Fits
<1>7. FilesOK' /\ MarkBehindFile'
  BY <1>4, <1>5 DEF FilesOK, MarkBehindFile
<1>8. JobMovesForward' /\ ResultFits'
  BY <1>2, <1>5, <1>6 DEF JobMovesForward, ResultFits
<1>9. RequestsFit' /\ MissingIsDying' /\ JobSuffices'
  BY <1>2, <1>6 DEF RequestsFit, MissingIsDying, JobSuffices, JobReaches, Fits
<1>10. CopiesSqueezed'
  BY <1>1, <1>2, <1>4 DEF CopiesSqueezed, TypeOK, Drawings
<1> QED
  BY <1>3, <1>7, <1>8, <1>9, <1>10

(* The row dies: nothing above is about a live row only. *)
LEMMA DyingPreserves ==
  ASSUME IInv, Expire \/ Delete
  PROVE  IInv'
<1> USE CacheAssumption DEF IInv
<1>1. /\ row # "deleted" /\ row' \in {"expired", "deleted"}
      /\ UNCHANGED <<rev, blank, mark, disk, version, serviceVars, work, view, held>>
  BY DEF Expire, Delete
<1>2. TypeOK'
  BY <1>1 DEF TypeOK, serviceVars, ServiceTypeOK
<1>3. \A d : Past(d) => Past(d)'
  BY <1>1 DEF Past
<1>4. \A r, w : FlatShows(r, w) => FlatShows(r, w)'
  BY <1>1 DEF FlatShows
<1>5. \A r, x : Fits(r, x) => Fits(r, x)'
  BY <1>1, <1>4 DEF Fits
<1>6. FilesOK' /\ MarkBehindFile'
  BY <1>1, <1>3, <1>4 DEF FilesOK, MarkBehindFile
<1>7. JobMovesForward' /\ ResultFits'
  BY <1>1, <1>4, <1>5 DEF JobMovesForward, ResultFits
<1>8. RequestsFit' /\ MissingIsDying' /\ JobSuffices'
  BY <1>1, <1>5 DEF RequestsFit, MissingIsDying, JobSuffices, JobReaches
<1>9. CopiesSqueezed'
  BY <1>1, <1>3 DEF CopiesSqueezed
<1> QED
  BY <1>2, <1>6, <1>7, <1>8, <1>9

LEMMA UnlinkPreserves ==
  ASSUME IInv, NEW variant \in DOMAIN disk, Unlink(variant)
  PROVE  IInv'
<1> USE CacheAssumption DEF IInv
<1>1. /\ row # "live"
      /\ UNCHANGED <<docVars, mark, version, serviceVars, work, view, held>>
  BY DEF Unlink
<1>2. /\ disk' \in [Variants -> Drawings \cup {Original, Absent}]
      /\ \A x \in Variants : disk'[x] \in {disk[x], Absent}
  BY DEF Unlink, TypeOK, Variants
<1>3. TypeOK'
  BY <1>1, <1>2 DEF TypeOK, docVars, serviceVars, ServiceTypeOK
<1>4. \A d : Past(d) => Past(d)'
  BY <1>1 DEF Past, docVars
<1>5. \A r, w : FlatShows(r, w) => FlatShows(r, w)'
  BY <1>1, <1>2 DEF FlatShows, docVars, Variants
<1>6. \A r, x : Fits(r, x) => Fits(r, x)'
  BY <1>1, <1>5 DEF Fits, docVars
<1>7. FilesOK' /\ MarkBehindFile'
  BY <1>1, <1>2, <1>4, <1>5 DEF FilesOK, MarkBehindFile, docVars, Variants
<1>8. JobMovesForward' /\ ResultFits'
  BY <1>1, <1>2, <1>5, <1>6 DEF JobMovesForward, ResultFits, docVars, Variants
<1>9. RequestsFit' /\ MissingIsDying' /\ JobSuffices'
  BY <1>1, <1>6 DEF RequestsFit, MissingIsDying, JobSuffices, JobReaches, docVars
<1>10. CopiesSqueezed'
  BY <1>1, <1>4 DEF CopiesSqueezed, docVars
<1> QED
  BY <1>3, <1>7, <1>8, <1>9, <1>10
-----------------------------------------------------------------------------
(* What a step of the route or of the job keeps that leaves row, file and      *)
(* markers alone.                                                              *)
LEMMA FactsKept ==
  ASSUME IInv, UNCHANGED <<docVars, mark, disk, version>>
  PROVE  /\ FilesOK' /\ MarkBehindFile'
         /\ \A d : Past(d)' <=> Past(d)
         /\ \A r, w : FlatShows(r, w)' <=> FlatShows(r, w)
         /\ \A r, x : Fits(r, x)' <=> Fits(r, x)
         /\ UNCHANGED work => JobMovesForward' /\ ResultFits'
         /\ UNCHANGED held => CopiesSqueezed'
<1> USE DEF IInv, docVars
<1>1. \A d : Past(d)' <=> Past(d)
  BY DEF Past
<1>2. \A r, w : FlatShows(r, w)' <=> FlatShows(r, w)
  BY DEF FlatShows
<1>3. \A r, x : Fits(r, x)' <=> Fits(r, x)
  BY <1>2 DEF Fits
<1>4. FilesOK' /\ MarkBehindFile'
  BY <1>1, <1>2 DEF FilesOK, MarkBehindFile
<1>5. UNCHANGED work => JobMovesForward' /\ ResultFits'
  BY <1>2, <1>3 DEF JobMovesForward, ResultFits
<1>6. UNCHANGED held => CopiesSqueezed'
  BY <1>1 DEF CopiesSqueezed
<1> QED
  BY <1>1, <1>2, <1>3, <1>4, <1>5, <1>6

(* Views and their kinds. *)
LEMMA ViewKinds ==
  /\ Idle \in Views /\ Missing \in Views /\ Failed \in Views /\ Waiting \in Views
  /\ Settled \subseteq Views
  /\ \A o \in {Idle, Failed, Waiting} : o.pc \notin {"open", "stream", "missing"}
  /\ Missing.pc = "missing"
  /\ \A r \in 0..MaxRev, x \in Variants, b \in BOOLEAN :
       /\ Opening(r, x, b) \in Views /\ Opening(r, x, b).pc = "open"
       /\ Opening(r, x, b).rev = r /\ Opening(r, x, b).variant = x
  /\ \A r \in 0..MaxRev, x \in Variants :
       /\ Streaming(r, x) \in Views /\ Streaming(r, x).pc = "stream"
       /\ Streaming(r, x).rev = r /\ Streaming(r, x).variant = x
BY DEF Views, Settled, Idle, Missing, Failed, Waiting, Opening, Streaming

LEMMA AskKeepsTypes ==
  ASSUME ServiceTypeOK, NEW v \in Callers, Ask(v, Capture)
  PROVE  ServiceTypeOK'
BY CacheAssumption DEF ServiceTypeOK, Ask

(* A request that moves to a place that fits keeps the invariant. *)
LEMMA RequestMoves ==
  ASSUME IInv, NEW v \in Callers, NEW o \in Views,
         view' = [view EXCEPT ![v] = o], ServiceTypeOK',
         UNCHANGED <<docVars, mark, disk, version, work, held>>,
         o.pc \in {"open", "stream"} => Fits(o.rev, o.variant) /\ JobReaches(o.rev),
         o.pc = "missing" => row # "live"
  PROVE  IInv'
<1> USE DEF IInv
<1>1. TypeOK'
  BY DEF TypeOK, docVars
<1>2. \A u \in Callers : view'[u] = o \/ view'[u] = view[u]
  BY DEF TypeOK
<1>3. RequestsFit' /\ JobSuffices'
  BY <1>2, FactsKept DEF RequestsFit, JobSuffices, JobReaches, docVars
<1>4. MissingIsDying'
  BY <1>2 DEF MissingIsDying, docVars
<1> QED
  BY <1>1, <1>3, <1>4, FactsKept

LEMMA LookupPreserves ==
  ASSUME IInv, NEW v \in Callers, Lookup(v)
  PROVE  IInv'
<1> USE CacheAssumption, ViewKinds
<1> DEFINE variant == IF rev \in blank THEN "original" ELSE "flat"
<1>0. UNCHANGED <<docVars, mark, disk, version, work, held>> /\ ServiceTypeOK
  BY DEF Lookup, IInv, TypeOK
<1>1. CASE row # "live" /\ view' = [view EXCEPT ![v] = Missing] /\ UNCHANGED serviceVars
  BY <1>0, <1>1, RequestMoves DEF serviceVars, ServiceTypeOK
<1>2. CASE row = "live" /\ Confirms(v) /\ view' = [view EXCEPT ![v] = Idle]
           /\ UNCHANGED serviceVars
  BY <1>0, <1>2, RequestMoves DEF serviceVars, ServiceTypeOK
<1>3. CASE row = "live" /\ rev \notin blank /\ ~CacheCurrent /\ Ensure(v)
  BY <1>0, <1>3, RequestMoves, AskKeepsTypes DEF Ensure
<1>4. CASE /\ row = "live" /\ ~(rev \notin blank /\ ~CacheCurrent)
           /\ view' = [view EXCEPT ![v] = Opening(rev, variant, TRUE)]
           /\ UNCHANGED serviceVars
  <2>1. rev \in 0..MaxRev /\ rev \in 0..rev /\ variant \in Variants
    BY DEF IInv, TypeOK, Variants
  <2>2. rev \notin blank => FlatShows(rev, version)
    <3> SUFFICES ASSUME CacheCurrent PROVE FlatShows(rev, version)
      BY <1>4
    <3>1. mark # Unmarked /\ mark.rev = rev /\ mark.by = version
      BY DEF CacheCurrent, Drawing, Unmarked, IInv, TypeOK
    <3> QED
      BY <3>1 DEF IInv, MarkBehindFile
  <2>3. Fits(rev, variant) /\ JobReaches(rev)
    <3>1. rev \notin blank => mark # Unmarked /\ mark.rev = rev
      BY <1>4 DEF CacheCurrent, Drawing, Unmarked, IInv, TypeOK
    <3> QED
      BY <2>1, <2>2, <3>1 DEF Fits, JobReaches, IInv, JobMovesForward
  <2>4. ServiceTypeOK'
    BY <1>0, <1>4 DEF serviceVars, ServiceTypeOK
  <2>5. PICK n \in Views : n = Opening(rev, variant, TRUE)
    BY <2>1
  <2>6. n.pc = "open" /\ n.rev = rev /\ n.variant = variant
    BY <2>5 DEF Opening
  <2> QED
    <3>1. Fits(n.rev, n.variant) /\ JobReaches(n.rev) /\ view' = [view EXCEPT ![v] = n]
      BY <1>4, <2>3, <2>5, <2>6
    <3> QED
      BY <1>0, <2>4, <2>6, <3>1, RequestMoves
<1> QED
  BY <1>1, <1>2, <1>3, <1>4 DEF Lookup

(* What the path of a request holds: an image to send, unless the capture dies. *)
LEMMA FileOfRequest ==
  ASSUME IInv, NEW v \in Callers, view[v].pc \in {"open", "stream"}
  PROVE  LET o == view[v] IN
         /\ o.rev \in 0..rev /\ o.rev \in 0..MaxRev /\ o.variant \in Variants
         /\ Fits(o.rev, o.variant) /\ JobReaches(o.rev)
         /\ disk[o.variant] = Absent => row # "live"
<1>1. Fits(view[v].rev, view[v].variant) /\ JobReaches(view[v].rev)
  BY DEF IInv, RequestsFit, JobSuffices
<1>2. view[v].rev \in 0..rev /\ 0..rev \subseteq 0..MaxRev
  BY <1>1, CacheAssumption DEF Fits, IInv, TypeOK
<1>3. CASE view[v].rev \in blank
  BY <1>1, <1>2, <1>3 DEF IInv, FilesOK, Fits, Variants
<1>4. CASE view[v].rev \notin blank
  BY <1>1, <1>2, <1>4 DEF Fits, FlatShows, Variants
<1> QED
  BY <1>3, <1>4

LEMMA StatPreserves ==
  ASSUME IInv, NEW v \in Callers, Stat(v)
  PROVE  IInv'
<1> USE CacheAssumption, ViewKinds
<1> DEFINE o == view[v]
<1>0. /\ UNCHANGED <<docVars, mark, disk, version, work, held>>
      /\ ServiceTypeOK /\ o.pc = "open"
  BY DEF Stat, IInv, TypeOK
<1>1. CASE disk[o.variant] = Absent /\ o.again /\ Ensure(v)
  BY <1>0, <1>1, RequestMoves, AskKeepsTypes DEF Ensure
<1>2. CASE /\ disk[o.variant] = Absent
           /\ view' = [view EXCEPT ![v] = Missing] /\ UNCHANGED serviceVars
  BY <1>0, <1>2, RequestMoves, FileOfRequest DEF serviceVars, ServiceTypeOK
<1>3. CASE /\ view' = [view EXCEPT ![v] = Streaming(o.rev, o.variant)]
           /\ UNCHANGED serviceVars
  <2>1. ServiceTypeOK'
    BY <1>0, <1>3 DEF serviceVars, ServiceTypeOK
  <2>2. /\ o.rev \in 0..MaxRev /\ o.variant \in Variants
        /\ Fits(o.rev, o.variant) /\ JobReaches(o.rev)
    BY <1>0, FileOfRequest
  <2>3. PICK n \in Views : n = Streaming(o.rev, o.variant)
    BY <2>2
  <2>4. n.pc = "stream" /\ n.rev = o.rev /\ n.variant = o.variant
    BY <2>2, <2>3
  <2> QED
    BY <1>0, <1>3, <2>1, <2>2, <2>3, <2>4, RequestMoves
<1> QED
  BY <1>1, <1>2, <1>3 DEF Stat

LEMMA StreamPreserves ==
  ASSUME IInv, NEW v \in Callers, Stream(v)
  PROVE  IInv'
<1> USE CacheAssumption, ViewKinds
<1> DEFINE s == view[v]
<1>0. UNCHANGED <<docVars, mark, disk, version, serviceVars, work>> /\ s.pc = "stream"
  BY DEF Stream
<1>s. ServiceTypeOK'
  BY <1>0 DEF IInv, TypeOK, serviceVars, ServiceTypeOK
<1>1. CASE view' = [view EXCEPT ![v] = Failed] /\ UNCHANGED held
  BY <1>0, <1>1, <1>s, RequestMoves
<1>2. CASE /\ disk[s.variant] # Absent
           /\ view' = [view EXCEPT ![v] = Idle]
           /\ held' = [held EXCEPT ![v] = [tag |-> Drawing(s.rev, version),
                                           body |-> disk[s.variant]]]
  <2>1. /\ s.rev \in 0..rev /\ s.rev \in 0..MaxRev /\ s.variant \in Variants
        /\ Fits(s.rev, s.variant)
    BY <1>0, FileOfRequest
  <2>2. /\ Drawing(s.rev, version) \in Drawings
        /\ Drawing(s.rev, version).rev = s.rev /\ Drawing(s.rev, version).by = version
    BY <2>1 DEF Drawing, Drawings, IInv, TypeOK
  <2>3. TypeOK'
    <3>1. held' \in [Callers -> [tag : Drawings \cup {Absent},
                                 body : Drawings \cup {Original, Absent}]]
      BY <1>2, <2>1, <2>2 DEF IInv, TypeOK
    <3>2. view' \in [Callers -> Views]
      BY <1>2 DEF IInv, TypeOK
    <3> QED
      BY <1>0, <1>s, <3>1, <3>2 DEF IInv, TypeOK, docVars
  <2>4. \A u \in Callers : u # v => held'[u] = held[u] /\ view'[u] = view[u]
    BY <1>2 DEF IInv, TypeOK
  <2>5. /\ held'[v].tag.rev = s.rev /\ held'[v].tag.by = version
        /\ held'[v].body = disk[s.variant] /\ view'[v] = Idle
    BY <1>2, <2>2 DEF IInv, TypeOK
  <2>6. IF s.rev \in blank THEN disk[s.variant] = Original
        ELSE /\ Past(disk[s.variant])
             /\ disk[s.variant].rev >= s.rev /\ disk[s.variant].by >= version
    BY <1>2, <2>1 DEF Fits, FlatShows, IInv, FilesOK
  <2>7. CopiesSqueezed'
    <3> SUFFICES ASSUME NEW u \in Callers, held'[u].tag # Absent
                 PROVE  LET copy == held'[u] IN
                        /\ copy.tag.rev <= rev /\ copy.tag.by <= version
                        /\ IF copy.tag.rev \in blank THEN copy.body = Original
                           ELSE /\ Past(copy.body)
                                /\ copy.body.rev >= copy.tag.rev
                                /\ copy.body.by >= copy.tag.by
      BY <1>0, FactsKept DEF CopiesSqueezed, docVars
    <3>1. CASE u = v
      BY <2>1, <2>5, <2>6, <3>1 DEF IInv, TypeOK
    <3>2. CASE u # v
      BY <2>4, <3>2 DEF IInv, CopiesSqueezed
    <3> QED
      BY <3>1, <3>2
  <2>8. RequestsFit' /\ MissingIsDying' /\ JobSuffices'
    BY <1>0, <2>4, <2>5, FactsKept
    DEF IInv, RequestsFit, MissingIsDying, JobSuffices, JobReaches, docVars
  <2> QED
    BY <1>0, <2>3, <2>7, <2>8, FactsKept DEF IInv
<1> QED
  BY <1>1, <1>2 DEF Stream
-----------------------------------------------------------------------------
(* The render job. *)

(* A job that settles hands everybody who joined it one outcome. *)
LEMMA SettlePreserves ==
  ASSUME IInv, NEW o \in Views, Settle(o),
         o.pc \in {"open", "stream"} => Fits(o.rev, o.variant),
         o.pc = "missing" => row # "live"
  PROVE  IInv'
<1> USE CacheAssumption DEF IInv, Settle
<1>1. TypeOK'
  <2>1. ServiceTypeOK'
    BY DEF TypeOK, ServiceTypeOK, Answer
  <2>2. work' \in Works
    BY DEF NoWork, Works
  <2>3. view' \in [Callers -> Views]
    BY DEF TypeOK
  <2> QED
    BY <2>1, <2>2, <2>3 DEF TypeOK, docVars
<1>2. \A v \in Callers : view'[v] = o \/ view'[v] = view[v]
  OBVIOUS
<1>3. RequestsFit'
  BY <1>2, FactsKept DEF RequestsFit
<1>4. MissingIsDying'
  BY <1>2 DEF MissingIsDying, docVars
<1>5. JobMovesForward' /\ ResultFits' /\ JobSuffices'
  BY DEF JobMovesForward, ResultFits, JobSuffices, JobReaches, NoWork
<1> QED
  BY <1>1, <1>3, <1>4, <1>5, FactsKept

(* A step of the job that only changes where it stands. *)
LEMMA JobMoves ==
  ASSUME IInv, UNCHANGED <<docVars, mark, disk, version, view, held>>,
         work' \in Works, ServiceTypeOK', JobMovesForward', ResultFits', JobSuffices'
  PROVE  IInv'
<1> USE DEF IInv
<1>1. TypeOK'
  BY DEF TypeOK, docVars
<1>2. RequestsFit' /\ MissingIsDying'
  BY FactsKept DEF RequestsFit, MissingIsDying, docVars
<1> QED
  BY <1>1, <1>2, FactsKept

LEMMA ServiceKept ==
  ASSUME IInv, UNCHANGED serviceVars
  PROVE  ServiceTypeOK'
BY DEF IInv, TypeOK, serviceVars, ServiceTypeOK

LEMMA WorkKinds ==
  /\ [pc |-> "read"] \in Works /\ NoRender \in Works
  /\ NoRender.pc = "done" /\ NoRender.variant = "none"
  /\ \A r \in 0..MaxRev, x \in Variants :
       /\ Rendered(r, x) \in Works /\ Rendered(r, x).pc = "done"
       /\ Rendered(r, x).rev = r /\ Rendered(r, x).variant = x
  /\ \A r \in 0..MaxRev, pc \in {"compose", "write", "mark"} :
       /\ Rendering(pc, r) \in Works /\ Rendering(pc, r).pc = pc
       /\ Rendering(pc, r).rev = r
BY DEF Works, NoRender, Rendered, Rendering

LEMMA RenderBeginsPreserves ==
  ASSUME IInv, RenderBegins
  PROVE  IInv'
<1>1. ServiceTypeOK'
  BY CacheAssumption DEF IInv, TypeOK, ServiceTypeOK, RenderBegins, Begin
<1>2. JobMovesForward' /\ ResultFits' /\ JobSuffices' /\ work' \in Works
  BY WorkKinds DEF RenderBegins, JobMovesForward, ResultFits, JobSuffices, JobReaches
<1> QED
  BY <1>1, <1>2, JobMoves DEF RenderBegins

LEMMA RenderReadsPreserves ==
  ASSUME IInv, RenderReads
  PROVE  IInv'
<1> USE DEF RenderReads
<1>0. rev \in 0..MaxRev /\ rev \in 0..rev
  BY CacheAssumption DEF IInv, TypeOK
<1>1. CASE work' = NoRender /\ row = "deleted"
  <2>1. JobMovesForward' /\ ResultFits' /\ JobSuffices' /\ work' \in Works
    BY <1>1, WorkKinds DEF JobMovesForward, ResultFits, JobSuffices, JobReaches, docVars
  <2> QED
    BY <2>1, JobMoves, ServiceKept
<1>2. CASE rev \in blank /\ work' = Rendered(rev, "original")
  <2>1. work' \in Works /\ work'.pc = "done" /\ work'.rev = rev /\ work'.variant = "original"
    BY <1>0, <1>2, WorkKinds DEF Variants
  <2>2. Fits(rev, "original")
    BY <1>0, <1>2 DEF Fits
  <2>3. JobMovesForward' /\ ResultFits' /\ JobSuffices'
    BY <2>1, <2>2, FactsKept DEF JobMovesForward, ResultFits, JobSuffices, JobReaches
  <2> QED
    BY <2>1, <2>3, JobMoves, ServiceKept
<1>3. CASE rev \notin blank /\ work' = Rendering("compose", rev)
  <2>1. work' \in Works /\ work'.pc = "compose" /\ work'.rev = rev
    BY <1>0, <1>3, WorkKinds
  <2>2. ResultFits'
    BY <2>1 DEF ResultFits
  <2>3. JobMovesForward' /\ JobSuffices'
    BY <1>0, <1>3, <2>1
    DEF JobMovesForward, JobSuffices, JobReaches, IInv, FilesOK, MarkBehindFile, RequestsFit,
        Fits, Past, docVars
  <2> QED
    BY <2>1, <2>2, <2>3, JobMoves, ServiceKept
<1> QED
  BY <1>1, <1>2, <1>3

LEMMA RenderComposesPreserves ==
  ASSUME IInv, RenderComposes
  PROVE  IInv'
<1> USE DEF RenderComposes
<1>1. CASE disk["original"] = Absent /\ work' = NoRender
  <2>1. JobMovesForward' /\ ResultFits' /\ JobSuffices' /\ work' \in Works
    BY <1>1, WorkKinds DEF JobMovesForward, ResultFits, JobSuffices, JobReaches, docVars, IInv, FilesOK
  <2> QED
    BY <2>1, JobMoves, ServiceKept
<1>2. CASE work' = Rendering("write", work.rev)
  <2>1. work.rev \in 0..rev /\ work.rev \in 0..MaxRev
    BY CacheAssumption DEF IInv, TypeOK, JobMovesForward
  <2>2. work' \in Works /\ work'.pc = "write" /\ work'.rev = work.rev
    BY <1>2, <2>1, WorkKinds
  <2>3. ResultFits'
    BY <2>2 DEF ResultFits
  <2>4. JobMovesForward' /\ JobSuffices'
    BY <2>2 DEF JobMovesForward, JobSuffices, JobReaches, IInv, docVars
  <2> QED
    BY <2>2, <2>3, <2>4, JobMoves, ServiceKept
<1> QED
  BY <1>1, <1>2

(* The file moves forward, so whatever it showed before it still shows. *)
LEMMA RenderWritesPreserves ==
  ASSUME IInv, RenderWrites
  PROVE  IInv'
<1> USE CacheAssumption DEF IInv, RenderWrites
<1> DEFINE d == Drawing(work.rev, version)
<1>1. /\ work.rev \in 0..rev /\ work.rev \in 0..MaxRev /\ work.rev \notin blank
      /\ version \in Nat /\ rev \in Nat
  BY DEF TypeOK, JobMovesForward
<1>2. d \in Drawings /\ d.rev = work.rev /\ d.by = version /\ d # Absent /\ d # Original
  <2>1. d \in Drawings /\ d.rev = work.rev /\ d.by = version
    BY <1>1 DEF Drawing, Drawings, TypeOK
  <2> QED
    BY <2>1 DEF Drawings
<1>3. /\ disk' \in [Variants -> Drawings \cup {Original, Absent}]
      /\ disk'["flat"] = d /\ disk'["original"] = disk["original"]
  BY <1>2 DEF TypeOK, Variants
<1>4. work' \in Works /\ work'.pc = "mark" /\ work'.rev = work.rev
  BY <1>1, WorkKinds
<1>5. TypeOK'
  BY <1>3, <1>4, ServiceKept DEF TypeOK, docVars
<1>6. \A x : Past(x)' <=> Past(x)
  BY DEF Past, docVars
<1>7. \A r \in 0..MaxRev, w \in Nat : r <= work.rev /\ w <= version => FlatShows(r, w)'
  BY <1>1, <1>2, <1>3 DEF FlatShows
<1>8. Past(d)
  BY <1>1, <1>2 DEF Past
<1>9. FilesOK'
  BY <1>3, <1>6, <1>8 DEF FilesOK, docVars
<1>10. MarkBehindFile'
  BY <1>6, <1>7 DEF MarkBehindFile, JobMovesForward, Past, Drawings, TypeOK
<1>11. JobMovesForward' /\ ResultFits' /\ JobSuffices'
  <2>1. FlatShows(work.rev, version)'
    BY <1>1, <1>4, <1>7
  <2> QED
    BY <1>1, <1>2, <1>3, <1>4, <2>1
    DEF JobMovesForward, ResultFits, JobSuffices, JobReaches, docVars
<1>12. RequestsFit' /\ MissingIsDying'
  <2>1. ASSUME NEW r \in 0..rev, NEW x, Fits(r, x), JobReaches(r) PROVE Fits(r, x)'
    BY <1>1, <1>7, <2>1 DEF Fits, JobReaches, docVars, TypeOK
  <2> QED
    BY <2>1 DEF RequestsFit, JobSuffices, MissingIsDying, Fits, docVars
<1>13. CopiesSqueezed'
  BY <1>6 DEF CopiesSqueezed, docVars
<1> QED
  BY <1>5, <1>9, <1>10, <1>11, <1>12, <1>13

LEMMA RenderMarksPreserves ==
  ASSUME IInv, RenderMarks
  PROVE  IInv'
<1> USE CacheAssumption DEF IInv, RenderMarks
<1>1. /\ work.rev \in 0..rev /\ work.rev \in 0..MaxRev /\ work.rev \notin blank
      /\ FlatShows(work.rev, version) /\ version \in Nat /\ rev \in Nat
  BY DEF TypeOK, JobMovesForward
<1>2. LET d == Drawing(work.rev, version) IN
      d \in Drawings /\ d.rev = work.rev /\ d.by = version
  BY <1>1 DEF Drawing, Drawings, TypeOK
<1>3. work' \in Works /\ work'.pc = "done" /\ work'.rev = work.rev /\ work'.variant = "flat"
  BY <1>1, WorkKinds DEF Variants
<1>4. mark' \in {mark, Drawing(work.rev, version)}
  OBVIOUS
<1>5. TypeOK'
  BY <1>2, <1>3, <1>4, ServiceKept DEF TypeOK, docVars
<1>6. (\A x : Past(x)' <=> Past(x)) /\ (\A r, w : FlatShows(r, w)' <=> FlatShows(r, w))
  BY DEF Past, FlatShows, docVars
<1>7. \A r, x : Fits(r, x)' <=> Fits(r, x)
  BY <1>6 DEF Fits, docVars
<1>8. FilesOK' /\ MarkBehindFile'
  BY <1>1, <1>2, <1>4, <1>6 DEF FilesOK, MarkBehindFile, Past, docVars
<1>9. JobMovesForward' /\ ResultFits' /\ JobSuffices'
  BY <1>1, <1>3, <1>7 DEF JobMovesForward, ResultFits, JobSuffices, JobReaches, Fits
<1>10. RequestsFit' /\ MissingIsDying' /\ CopiesSqueezed'
  BY <1>6, <1>7 DEF RequestsFit, MissingIsDying, CopiesSqueezed, docVars
<1> QED
  BY <1>5, <1>8, <1>9, <1>10

LEMMA RenderAnswersPreserves ==
  ASSUME IInv, RenderAnswers
  PROVE  IInv'
<1> USE DEF RenderAnswers
<1>1. CASE work.variant = "none" /\ Settle(Missing)
  BY <1>1, ViewKinds, SettlePreserves DEF IInv, ResultFits
<1>2. CASE work # NoRender /\ Settle(Opening(work.rev, work.variant, FALSE))
  <2>1. work \in [pc : {"done"}, rev : 0..MaxRev, variant : Variants]
    BY <1>2 DEF IInv, TypeOK, Works
  <2>2. Fits(work.rev, work.variant)
    BY <2>1 DEF IInv, ResultFits, Variants
  <2>3. PICK o \in Views : o = Opening(work.rev, work.variant, FALSE)
    BY <2>1, ViewKinds
  <2>4. o.rev = work.rev /\ o.variant = work.variant /\ o.pc = "open"
    BY <2>3 DEF Opening
  <2> QED
    BY <1>2, <2>2, <2>3, <2>4, SettlePreserves
<1> QED
  BY <1>1, <1>2, WorkKinds

LEMMA RestartPreserves ==
  ASSUME IInv, Restart
  PROVE  IInv'
<1> USE CacheAssumption DEF IInv, Restart
<1>1. /\ version' \in Versions /\ version \in Nat /\ version' \in Nat /\ version <= version'
      /\ UNCHANGED <<rev, blank, row, mark, disk, held>>
  BY DEF TypeOK, docVars
<1>2. \A v \in Callers : view'[v].pc \notin {"open", "stream"}
                        /\ (view'[v] = view[v] \/ view'[v] = Failed)
  BY ViewKinds DEF Settled, Missing
<1>3. TypeOK'
  <2>1. view' \in [Callers -> Views]
    BY ViewKinds DEF TypeOK
  <2>2. work' \in Works
    BY DEF Works, NoWork
  <2>3. ServiceTypeOK'
    BY DEF ServiceTypeOK
  <2> QED
    BY <1>1, <2>1, <2>2, <2>3 DEF TypeOK
<1>4. \A x : Past(x) => Past(x)'
  <2> SUFFICES ASSUME NEW x, Past(x) PROVE Past(x)'
    OBVIOUS
  <2>1. x \in Drawings /\ x.by \in Nat
    BY DEF Past, Drawings
  <2> QED
    BY <1>1, <2>1 DEF Past
<1>5. \A r, w : FlatShows(r, w)' <=> FlatShows(r, w)
  BY <1>1 DEF FlatShows
<1>6. FilesOK' /\ MarkBehindFile'
  BY <1>1, <1>4, <1>5 DEF FilesOK, MarkBehindFile
<1>7. JobMovesForward' /\ ResultFits' /\ JobSuffices'
  BY <1>2 DEF JobMovesForward, ResultFits, JobSuffices, NoWork
<1>8. RequestsFit' /\ MissingIsDying'
  BY <1>1, <1>2, ViewKinds DEF RequestsFit, MissingIsDying
<1>9. CopiesSqueezed'
  <2> SUFFICES ASSUME NEW v \in Callers, held[v].tag # Absent
               PROVE  held[v].tag.by <= version'
    BY <1>1, <1>4 DEF CopiesSqueezed
  <2>1. held[v].tag.by \in Nat /\ held[v].tag.by <= version
    BY DEF CopiesSqueezed, TypeOK, Drawings
  <2> QED
    BY <1>1, <2>1
<1> QED
  BY <1>3, <1>6, <1>7, <1>8, <1>9

LEMMA StepPreserves == IInv /\ [Next]_vars => IInv'
<1> SUFFICES ASSUME IInv, [Next]_vars PROVE IInv'
  OBVIOUS
<1>1. CASE Save
  BY <1>1, SavePreserves
<1>2. CASE Expire \/ Delete
  BY <1>2, DyingPreserves
<1>3. CASE \E variant \in DOMAIN disk : Unlink(variant)
  BY <1>3, UnlinkPreserves
<1>4. CASE \E v \in Callers : Lookup(v) \/ RouteStep(v)
  BY <1>4, LookupPreserves, StatPreserves, StreamPreserves DEF RouteStep
<1>5. CASE RenderStep
  BY <1>5, RenderBeginsPreserves, RenderReadsPreserves, RenderComposesPreserves,
     RenderWritesPreserves, RenderMarksPreserves, RenderAnswersPreserves DEF RenderStep
<1>6. CASE RenderThrows
  BY <1>6, ViewKinds, SettlePreserves DEF RenderThrows
<1>7. CASE Restart
  BY <1>7, RestartPreserves
<1>8. CASE UNCHANGED vars
  <2>1. UNCHANGED <<docVars, mark, disk, version, work, view, held>> /\ ServiceTypeOK'
    BY <1>8, ServiceKept DEF vars
  <2>2. JobMovesForward' /\ ResultFits' /\ JobSuffices' /\ work' \in Works
    BY <2>1, FactsKept DEF IInv, TypeOK, JobSuffices, JobReaches, docVars
  <2> QED
    BY <2>1, <2>2, JobMoves
<1> QED
  BY <1>1, <1>2, <1>3, <1>4, <1>5, <1>6, <1>7, <1>8 DEF Next
-----------------------------------------------------------------------------
(* The cache keeps its types and its inductive invariant, whatever saves,      *)
(* viewers, renders, the purge and restarts do.                                *)
THEOREM CacheIsConsistent == Spec => []IInv
BY InitEstablishes, StepPreserves, PTL DEF Spec

(* A drawing that is not newer than the row and the renderer and not older is  *)
(* the current one.                                                            *)
LEMMA PastAndShown ==
  ASSUME IInv, NEW d, Past(d), d.rev >= rev, d.by >= version
  PROVE  d = Drawing(rev, version)
<1>1. d.rev \in Nat /\ d.by \in Nat /\ rev \in Nat /\ version \in Nat
  <2>1. d.rev \in 0..MaxRev /\ d.by \in Versions
    BY DEF Past, Drawings
  <2>2. rev \in 0..MaxRev /\ version \in Versions
    BY DEF IInv, TypeOK
  <2>3. Versions \subseteq Nat /\ MaxRev \in Nat
    BY CacheAssumption DEF CacheAssumption
  <2>4. 0..MaxRev \subseteq Nat
    BY <2>3
  <2> QED
    BY <2>1, <2>2, <2>3, <2>4
<1>2. d.rev = rev /\ d.by = version
  BY <1>1 DEF Past
<1> QED
  BY <1>2 DEF Past, Drawings, Drawing

(* Squeezed between the revision they mark and the row, the markers that call  *)
(* the cache current describe the file exactly: a CDN, a viewer or an owner is *)
(* never sent a drawing under the name of another.                             *)
THEOREM MarkersTellTheTruth == Spec => []MarkerTruthful
<1>1. IInv => MarkerTruthful
  <2> SUFFICES ASSUME IInv, CacheCurrent
               PROVE  disk["flat"] = mark \/ (row # "live" /\ disk["flat"] = Absent)
    BY DEF MarkerTruthful
  <2> USE CacheAssumption DEF IInv
  <2>1. mark # Unmarked /\ mark.rev = rev /\ mark.by = version /\ mark = Drawing(rev, version)
    BY DEF CacheCurrent, Unmarked, Drawing, TypeOK
  <2>2. FlatShows(rev, version)
    BY <2>1 DEF MarkBehindFile
  <2>3. CASE disk["flat"] # Absent
    BY <2>1, <2>2, <2>3, PastAndShown DEF FilesOK, FlatShows
  <2> QED
    BY <2>2, <2>3 DEF FlatShows
<1> QED
  BY <1>1, CacheIsConsistent, PTL

(* No viewer ever holds an image under an ETag newer than what it shows.       *)
THEOREM CopiesAreNotOlder == Spec => []CopyIsNotOlderThanTag
<1>1. IInv => CopyIsNotOlderThanTag
  BY CacheAssumption
  DEF IInv, CopiesSqueezed, CopyIsNotOlderThanTag, Past, Drawings
<1> QED
  BY <1>1, CacheIsConsistent, PTL

(* What a 304 would confirm is the current drawing, exactly.                   *)
THEOREM ConfirmedCopiesAreCurrent == Spec => []ConfirmedCopyIsCurrent
<1>1. IInv => ConfirmedCopyIsCurrent
  <2> SUFFICES ASSUME IInv, NEW v \in Callers, Confirms(v)
               PROVE  held[v].body = IF rev \in blank THEN Original ELSE Drawing(rev, version)
    BY DEF ConfirmedCopyIsCurrent
  <2>1. Drawing(rev, version) \in Drawings
    BY CacheAssumption DEF Drawing, Drawings, IInv, TypeOK
  <2>2. held[v].tag # Absent /\ held[v].tag.rev = rev /\ held[v].tag.by = version
    BY <2>1, CacheAssumption DEF Confirms, Drawing, Drawings
  <2> QED
    BY <2>2, PastAndShown DEF IInv, CopiesSqueezed
<1> QED
  BY <1>1, CacheIsConsistent, PTL

(* The route answers not-found only for a capture that expired or was deleted. *)
THEOREM NotFoundMeansDying == Spec => []MissingMeansDying
<1>1. IInv => MissingMeansDying
  BY DEF IInv, MissingIsDying, MissingMeansDying, Missing
<1> QED
  BY <1>1, CacheIsConsistent, PTL
=============================================================================
