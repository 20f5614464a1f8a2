---------------------------- MODULE UnionFSProofs ----------------------------
EXTENDS UnionFS, TLAPS, FiniteSetTheorems, SequenceTheorems, WellFoundedInduction

(***************************************************************************)
(* Theorems about the union file systems, for every number of directories  *)
(* and of changes to them.  Shape is what a callback's variables are at    *)
(* each of its places; EntryOK what it may rely on of the entry it has     *)
(* looked at, unless that has been removed or written since; Serving what  *)
(* it has found so far, unless anything has changed at all, and Clear that *)
(* no closed directory was in its way.                                     *)
(***************************************************************************)

\* What is known of an entry, and where one can be.
Entries == [kind : {"missing", "file", "dir"}, time : Nat, len : 0 .. 2]
Places == {Cwd} \cup Dirs

\* Every directory exists and has the parents of what it has; no time is ahead.
DiskOK ==
  /\ disk \in [Places -> [Paths -> Entries]]
  /\ changes \in 0 .. MaxChanges
  /\ locked \subseteq Lockable
  /\ \A d \in Places : IsDir(d, Root)
  /\ \A d \in Places, p \in Paths :
       /\ disk[d][p].time <= Now
       /\ disk[d][p].kind # "file" => disk[d][p].len = 0
       /\ p # Root /\ Exists(d, p) => IsDir(d, Front(p))

\* Where the callback can be with which program and call, and what its
\* variables hold there.
ControlOK ==
  /\ pc = "idle" =>
       /\ call = NoCall /\ dir = 1 /\ best = Nowhere /\ last_time = 0
       /\ subdirs = <<>> /\ names = {} /\ size = 0 /\ disturbed = {}
  /\ pc \notin {"idle", "crashed"} => call \in Calls
  /\ pc = "cached" => program = "inf24_1" /\ call.op # "readdir"
  /\ pc \in {"exists", "time"} => program = "main_c" /\ call.op # "readdir" /\ best # Cwd
  /\ pc = "time" => dir \in Dirs
  /\ pc \in {"regular", "size"} => program = "main_c" /\ call.op = "read"
  /\ pc = "stat" => call.op # "readdir" /\ (program = "main_c" => call.op = "getattr")
  /\ pc = "open" => call.op = "read"
  /\ pc \in {"stat", "regular", "size", "open"} => best \in Places
  /\ pc \in {"check", "list"} => call.op = "readdir"
  /\ pc = "check" => IF program = "main_c" THEN subdirs = <<>> ELSE names = {}
  /\ pc = "list" => IF program = "main_c" THEN Len(subdirs) = 1 ELSE dir = Nowhere
  /\ pc # "replied" => reply = NoReply

\* The types of the other variables.
VarsOK ==
  /\ program \in {"inf24_1", "main_c"}
  /\ tree \in [Paths -> Dirs \cup {Nowhere}]
  /\ pc \in {"idle", "cached", "exists", "time", "stat", "regular", "size", "open",
             "check", "list", "replied", "crashed"}
  /\ call \in Calls \cup {NoCall}
  /\ dir \in 1 .. Nowhere /\ best \in 0 .. Nowhere /\ last_time \in 0 .. Now
  /\ subdirs \in Seq(Dirs) /\ names \subseteq {"a", "b"} /\ size \in 0 .. 2
  /\ disturbed \subseteq {"written", "removed", "created", "chmod"}

Shape == DiskOK /\ VarsOK /\ ControlOK

\* What holds of the entry a callback is about to use, unless it has been removed,
\* written or given another mode since the callback looked at it.
EntryOK ==
  /\ pc = "crashed" =>
       \/ "removed" \in disturbed
       \/ \E d \in Places : Hidden(d, call.path) \/ Closed(d, call.path)
  /\ "removed" \notin disturbed =>
       /\ pc = "time" => Exists(dir, call.path)
       /\ pc = "size" => IsFile(best, call.path)
       /\ pc \in {"check", "list"} =>
            \A n \in 1 .. Len(subdirs) : IsDir(subdirs[n], call.path)
  /\ disturbed \cap {"written", "removed", "chmod"} = {} =>
       /\ pc = "open" =>
            LET len == disk[best][call.path].len
            IN  /\ call.range[1] < len
                /\ size = Min({call.range[2], len - call.range[1]})
       /\ reply.what = "data" =>
            reply.claimed = reply.got \/ Unreadable(reply.from, call.path)

\* The directories before d, the names in those of ds, and which of ds have the path
\* as a directory.
Up(d) == {e \in Dirs : e < d}
Listing(ds) == UNION {Children(d, call.path) : d \in ds}
IsDirs(ds) == {d \in ds : IsDir(d, call.path)}

\* file_tree is right until something changes.
TreeOK ==
  program = "inf24_1" /\ changes = 0 =>
    \A p \in Paths : IF Newest(p) = {} THEN tree[p] = Nowhere ELSE tree[p] \in Newest(p)

\* The loop of GetRealPathAndLastTime has the newest entry of the directories it
\* has passed, and that of readdir their names.
LoopOK ==
  disturbed = {} =>
    /\ pc \in {"exists", "time"} =>
         IF best = Nowhere THEN \A d \in Up(dir) : ~Exists(d, call.path)
         ELSE /\ best \in Up(dir) /\ Exists(best, call.path)
              /\ last_time = disk[best][call.path].time
              /\ \A d \in Up(dir) : Exists(d, call.path) => disk[d][call.path].time <= last_time
    /\ pc \in {"check", "list"} =>
         /\ names \cup Listing({subdirs[n] : n \in 1 .. Len(subdirs)})
              = Listing(IsDirs(Up(dir)))
         /\ program = "inf24_1" =>
              IF pc = "check" THEN subdirs = <<>> => IsDirs(Up(dir)) = {}
                              ELSE IsDirs(Dirs) # {}

\* The entry a callback has chosen is the newest, or the relative path.
ChoiceOK ==
  disturbed = {} /\ (program = "inf24_1" => changes = 0)
    /\ pc \in {"stat", "regular", "size", "open"}
  => \/ best \in Newest(call.path)
     \/ program = "main_c" /\ Newest(call.path) = {} /\ best = Cwd

\* No closed directory is in the way to what the callback has found; inf24-1.cpp
\* was mounted without any.
ClearOK ==
  /\ program = "inf24_1" /\ changes = 0 => \A d \in Dirs, p \in Paths : ~Closed(d, p)
  /\ disturbed = {} /\ (program = "inf24_1" => changes = 0) =>
       /\ pc \in {"exists", "time"} => \A d \in Up(dir) : ~Hidden(d, call.path)
       /\ pc = "time" => ~Hidden(dir, call.path)
       /\ pc \in {"stat", "regular", "size", "open"} /\ best # Cwd => ~Hidden(best, call.path)

LEMMA PathFacts ==
  /\ Front(<<"a">>) = Root /\ Front(<<"a", "b">>) = <<"a">>
  /\ Last(<<"a">>) = "a" /\ Last(<<"a", "b">>) = "b"
  /\ Len(<<"a">>) = 1 /\ Len(<<"a", "b">>) = 2
  /\ Root # <<"a">> /\ Root # <<"a", "b">> /\ <<"a">> # <<"a", "b">>
<1>1. /\ Last(<<"a">>) = "a" /\ Last(<<"a", "b">>) = "b"
      /\ Len(<<"a">>) = 1 /\ Len(<<"a", "b">>) = 2
      /\ Root # <<"a">> /\ Root # <<"a", "b">> /\ <<"a">> # <<"a", "b">>
  BY DEF Last, Root
<1>2. Front(<<"a">>) = Root
  BY DEF Front, Root
<1>3. Front(<<"a", "b">>) = <<"a">>
  <2>1. /\ Front(<<"a", "b">>) \in Seq({"a", "b"})
        /\ Len(Front(<<"a", "b">>)) = 1
        /\ Front(<<"a", "b">>)[1] = "a"
    BY DEF Front
  <2>2. <<"a">> \in Seq({"a", "b"}) /\ Len(<<"a">>) = 1 /\ <<"a">>[1] = "a"
    OBVIOUS
  <2>3. QED BY <2>1, <2>2, SeqEqual
<1>4. QED BY <1>1, <1>2, <1>3

LEMMA LayoutFacts ==
  ASSUME NEW a \in Entries, NEW b \in Entries
  PROVE  /\ Layout(a, b) \in [Paths -> Entries]
         /\ Layout(a, b)[Root] = Directory(1)
         /\ Layout(a, b)[<<"a">>] = a
         /\ Layout(a, b)[<<"a", "b">>] = b
  BY PathFacts DEF Layout, Paths, Entries, Directory, Root

LEMMA TimeSet ==
  ASSUME NEW entry \in Entries, NEW t \in Nat
  PROVE  /\ [entry EXCEPT !.time = t] \in Entries
         /\ [entry EXCEPT !.time = t].time = t
         /\ [entry EXCEPT !.time = t].kind = entry.kind
         /\ [entry EXCEPT !.time = t].len = entry.len
  BY DEF Entries

-----------------------------------------------------------------------------
LEMMA DiskInit == Init => DiskOK
<1> SUFFICES ASSUME Init PROVE DiskOK
  OBVIOUS
<1>1. PICK here \in [Dirs -> Layouts], cwd \in {Missing, File(1, 1)} :
        disk = [d \in Dirs \cup {Cwd} |-> IF d = Cwd THEN Layout(cwd, Missing) ELSE here[d]]
  BY DEF Init
<1>2. changes = 0 /\ MaxTime \in Nat /\ MaxTime >= 1 /\ MaxChanges \in Nat
  BY BoundsAssumption DEF Init
<1> DEFINE Good(l) ==
      \E a, b \in Entries :
        /\ l = Layout(a, b)
        /\ a.time <= MaxTime /\ b.time <= MaxTime
        /\ a.kind # "file" => a.len = 0
        /\ b.kind # "file" => b.len = 0
        /\ b.kind # "missing" => a.kind = "dir"
<1>3. ASSUME NEW l \in Layouts PROVE Good(l)
  <2>1. /\ Missing \in Entries /\ Missing.time = 0 /\ Missing.len = 0
        /\ Missing.kind = "missing"
    BY DEF Missing, Entries
  <2>2. \A t \in 1 .. MaxTime, n \in {1, 2} :
          /\ File(t, n) \in Entries /\ File(t, n).time = t /\ File(t, n).kind = "file"
          /\ Directory(t) \in Entries /\ Directory(t).time = t
          /\ Directory(t).kind = "dir" /\ Directory(t).len = 0
    BY <1>2 DEF Entries, File, Directory
  <2>3. CASE l = Layout(Missing, Missing)
    BY <1>2, <2>1, <2>3
  <2>4. ASSUME NEW t \in 1 .. MaxTime, NEW n \in {1, 2}, l = Layout(File(t, n), Missing)
        PROVE  Good(l)
    BY <1>2, <2>1, <2>2, <2>4
  <2>5. ASSUME NEW t \in 1 .. MaxTime, NEW b \in {Missing} \cup {File(u, 2) : u \in 1 .. MaxTime},
               l = Layout(Directory(t), b)
        PROVE  Good(l)
    <3>1. b \in Entries /\ b.time <= MaxTime /\ (b.kind # "file" => b.len = 0)
      BY <1>2, <2>1, <2>2
    <3>2. QED BY <1>2, <2>2, <2>5, <3>1
  <2>6. QED BY <2>3, <2>4, <2>5 DEF Layouts
<1>4. Good(Layout(cwd, Missing))
  BY <1>2 DEF Entries, Missing, File
<1>5. \A d \in Places : Good(disk[d])
  BY <1>1, <1>3, <1>4 DEF Places
<1> HIDE DEF Good
<1>6. ASSUME NEW d \in Places
      PROVE  /\ disk[d] \in [Paths -> Entries]
             /\ IsDir(d, Root)
             /\ \A p \in Paths :
                  /\ disk[d][p].time <= Now
                  /\ disk[d][p].kind # "file" => disk[d][p].len = 0
                  /\ p # Root /\ Exists(d, p) => IsDir(d, Front(p))
  <2>1. PICK a \in Entries, b \in Entries :
          /\ disk[d] = Layout(a, b)
          /\ a.time <= MaxTime /\ b.time <= MaxTime
          /\ a.kind # "file" => a.len = 0
          /\ b.kind # "file" => b.len = 0
          /\ b.kind # "missing" => a.kind = "dir"
    BY <1>5, <1>6 DEF Good
  <2>2. /\ disk[d] \in [Paths -> Entries]
        /\ disk[d][Root] = Directory(1) /\ disk[d][<<"a">>] = a /\ disk[d][<<"a", "b">>] = b
    BY <2>1, LayoutFacts
  <2>3. IsDir(d, Root)
    BY <2>2 DEF IsDir, Directory
  <2>4. a.time <= Now /\ b.time <= Now /\ 1 <= Now
    BY <1>2, <2>1 DEF Entries, Now
  <2>5. Directory(1).time = 1 /\ Directory(1).len = 0
    BY DEF Directory
  <2>6. ASSUME NEW p \in Paths
        PROVE  /\ disk[d][p].time <= Now
               /\ disk[d][p].kind # "file" => disk[d][p].len = 0
               /\ p # Root /\ Exists(d, p) => IsDir(d, Front(p))
    <3>1. CASE p = Root
      BY <2>2, <2>4, <2>5, <3>1
    <3>2. CASE p = <<"a">>
      BY <2>1, <2>2, <2>3, <2>4, <3>2, PathFacts
    <3>3. CASE p = <<"a", "b">>
      BY <2>1, <2>2, <2>4, <3>3, PathFacts DEF Exists, IsDir
    <3>4. QED BY <2>6, <3>1, <3>2, <3>3 DEF Paths
  <2>7. QED BY <2>2, <2>3, <2>6
<1>7. disk \in [Places -> [Paths -> Entries]]
  BY <1>1, <1>6 DEF Places
<1>8. locked \subseteq Lockable
  BY DEF Init
<1>9. QED BY <1>2, <1>6, <1>7, <1>8 DEF DiskOK

LEMMA ProgramKeeps == Program => UNCHANGED <<program, disk, locked, changes, tree>>
  BY DEF Program, Begin, End, get_last_changed_name, LookForPath, TakeNewer, GetAttr,
         ReadStat, IsRegular, FileSize, ReadFile, CheckDir, EndOfDirs, ListDir,
         EndOfList, mount

\* What depends on the disk and on the modes alone.
LEMMA SameModes ==
  ASSUME UNCHANGED <<disk, locked>>
  PROVE  \A d, p : /\ Exists(d, p)' = Exists(d, p) /\ IsDir(d, p)' = IsDir(d, p)
                   /\ IsFile(d, p)' = IsFile(d, p)
                   /\ Closed(d, p)' = Closed(d, p) /\ Hidden(d, p)' = Hidden(d, p)
                   /\ Visible(d, p)' = Visible(d, p)
                   /\ Unreadable(d, p)' = Unreadable(d, p)
                   /\ Children(d, p)' = Children(d, p)
<1>1. \A d, p : /\ Exists(d, p)' = Exists(d, p) /\ IsDir(d, p)' = IsDir(d, p)
                /\ IsFile(d, p)' = IsFile(d, p) /\ Closed(d, p)' = Closed(d, p)
  BY DEF Exists, IsDir, IsFile, Closed
<1>2. \A d, p : Hidden(d, p)' = Hidden(d, p) /\ Children(d, p)' = Children(d, p)
  BY <1>1 DEF Hidden, Children
<1>3. QED BY <1>1, <1>2 DEF Visible, Unreadable

\* What others have done to the disk when they record kind.
Recorded(kind) ==
  /\ disturbed' = IF pc = "idle" THEN disturbed ELSE disturbed \cup {kind}
  /\ \A d \in Places, p \in Paths : Exists(d, p) =>
       /\ kind # "removed" => disk'[d][p].kind = disk[d][p].kind
       /\ kind \in {"created", "chmod"} => disk'[d][p].len = disk[d][p].len
  /\ kind \notin {"removed", "chmod"} => locked' = locked

LEMMA ChmodKeeps ==
  ASSUME DiskOK, NEW d \in Dirs, NEW p \in Paths, Chmod(d, p)
  PROVE  DiskOK' /\ Recorded("chmod") /\ changes' = changes + 1
<1>1. /\ UNCHANGED disk /\ changes < MaxChanges /\ changes' = changes + 1 /\ Exists(d, p)
      /\ locked' \subseteq locked \cup {<<d, p>>}
      /\ disturbed' = IF pc = "idle" THEN disturbed ELSE disturbed \cup {"chmod"}
  BY DEF Chmod, Disturb
<1>2. Recorded("chmod")
  BY <1>1 DEF Recorded
<1>3. /\ changes \in Nat /\ MaxChanges \in Nat /\ MaxTime \in Nat
      /\ Now \in Nat /\ Now' = Now + 1 /\ changes' \in 0 .. MaxChanges
  BY <1>1, BoundsAssumption DEF DiskOK, Now
<1>4. \A e, q : Exists(e, q)' = Exists(e, q) /\ IsDir(e, q)' = IsDir(e, q)
  BY <1>1 DEF Exists, IsDir
<1>5. Places' = Places /\ Lockable' = Lockable
  BY <1>4 DEF Places, Dirs, Lockable, Cwd
<1>6. <<d, p>> \in Lockable
  BY <1>1 DEF Lockable
<1>7. \A e \in Places, q \in Paths : disk[e][q].time <= Now'
  <2>1. \A e \in Places, q \in Paths : disk[e][q].time \in Nat /\ disk[e][q].time <= Now
    BY DEF DiskOK, Entries
  <2>2. QED BY <1>3, <2>1
<1>8. DiskOK'
  BY <1>1, <1>3, <1>4, <1>5, <1>6, <1>7 DEF DiskOK
<1>9. QED BY <1>1, <1>2, <1>8

LEMMA EditKeeps ==
  ASSUME DiskOK, NEW d \in Dirs, NEW p \in Paths \ {Root}, Edit(d, p)
  PROVE  /\ DiskOK' /\ \E kind \in {"written", "removed", "created"} : Recorded(kind)
         /\ changes' = changes + 1
<1>1. \/ \E n \in {1, 2} : IsFile(d, p) /\ Change(d, p, File(Now, n), "written")
      \/ Exists(d, p) /\ Children(d, p) = {} /\ Change(d, p, Missing, "removed")
      \/ \E entry \in {File(Now, 2)} \cup (IF Len(p) = 1 THEN {Directory(Now)} ELSE {}) :
           ~Exists(d, p) /\ IsDir(d, Front(p)) /\ Change(d, p, entry, "created")
  BY DEF Edit
<1>2. /\ Now \in Nat /\ Now' = Now + 1
      /\ changes \in Nat /\ changes < MaxChanges /\ changes' = changes + 1
      /\ MaxChanges \in Nat
  <2>1. changes \in 0 .. MaxChanges /\ MaxChanges \in Nat /\ MaxTime \in Nat
    BY BoundsAssumption DEF DiskOK
  <2>2. changes < MaxChanges /\ changes' = changes + 1
    BY <1>1 DEF Change, Disturb
  <2>3. QED BY <2>1, <2>2 DEF Now
<1>3. PICK entry \in Entries, kind \in {"written", "removed", "created"} :
        /\ Change(d, p, entry, kind)
        /\ entry.time <= Now
        /\ entry.kind # "file" => entry.len = 0
        /\ kind = "written" => IsFile(d, p) /\ entry.kind = "file"
        /\ kind = "removed" => entry.kind = "missing" /\ Children(d, p) = {}
        /\ kind = "created" => ~Exists(d, p) /\ IsDir(d, Front(p))
  <2>1. CASE \E n \in {1, 2} : IsFile(d, p) /\ Change(d, p, File(Now, n), "written")
    BY <1>2, <2>1 DEF File, Entries
  <2>2. CASE Exists(d, p) /\ Children(d, p) = {} /\ Change(d, p, Missing, "removed")
    BY <1>2, <2>2 DEF Missing, Entries
  <2>3. CASE \E entry \in {File(Now, 2)} \cup (IF Len(p) = 1 THEN {Directory(Now)} ELSE {}) :
               ~Exists(d, p) /\ IsDir(d, Front(p)) /\ Change(d, p, entry, "created")
    <3>1. PICK entry \in {File(Now, 2), Directory(Now)} :
            ~Exists(d, p) /\ IsDir(d, Front(p)) /\ Change(d, p, entry, "created")
      BY <2>3
    <3>2. /\ entry \in Entries /\ entry.time <= Now
          /\ entry.kind # "file" => entry.len = 0
      BY <1>2, <3>1 DEF File, Directory, Entries
    <3>3. QED BY <3>1, <3>2
  <2>4. QED BY <1>1, <2>1, <2>2, <2>3
<1>4. /\ d \in Places /\ Front(p) \in Paths /\ Front(p) # p
      /\ disk \in [Places -> [Paths -> Entries]]
  BY PathFacts DEF Places, Paths, DiskOK, Root
<1>5. \A e \in Places, q \in Paths :
        disk'[e][q] = IF e = d /\ q = p THEN entry
                      ELSE IF e = d /\ q = Front(p) /\ kind # "written"
                      THEN [disk[e][q] EXCEPT !.time = Now]
                      ELSE disk[e][q]
  BY <1>3, <1>4 DEF Change
<1>6. disk' \in [Places -> [Paths -> Entries]]
  <2>1. CASE kind = "written"
    BY <1>3, <1>4, <2>1 DEF Change
  <2>2. CASE kind # "written"
    <3> DEFINE old == disk[d][Front(p)]
    <3>1. [old EXCEPT !.time = Now] \in Entries
      BY <1>2, <1>4, TimeSet
    <3>2. disk' = [disk EXCEPT ![d] = [disk[d] EXCEPT ![p] = entry,
                                                      ![Front(p)] = [old EXCEPT !.time = Now]]]
      BY <1>3, <1>4, <2>2 DEF Change
    <3>3. [disk[d] EXCEPT ![p] = entry, ![Front(p)] = [old EXCEPT !.time = Now]]
            \in [Paths -> Entries]
      BY <1>3, <1>4, <3>1
    <3>4. QED BY <1>4, <3>2, <3>3
  <2>3. QED BY <2>1, <2>2
<1>7. \A e \in Places, q \in Paths :
        (e # d \/ q # p) => /\ disk'[e][q].kind = disk[e][q].kind
                           /\ disk'[e][q].len = disk[e][q].len
                           /\ disk'[e][q].time \in {disk[e][q].time, Now}
  <2>1. ASSUME NEW e \in Places, NEW q \in Paths, e # d \/ q # p
        PROVE  /\ disk'[e][q].kind = disk[e][q].kind
               /\ disk'[e][q].len = disk[e][q].len
               /\ disk'[e][q].time \in {disk[e][q].time, Now}
    <3> DEFINE old == disk[e][q]
               new == [old EXCEPT !.time = Now]
    <3>1. old \in Entries
      BY <1>4
    <3>2. disk'[e][q] = old \/ disk'[e][q] = new
      BY <1>5, <2>1
    <3>3. new.kind = old.kind /\ new.len = old.len /\ new.time = Now
      BY <1>2, <3>1, TimeSet
    <3> HIDE DEF new
    <3>4. QED BY <3>2, <3>3
  <2>2. QED BY <2>1
<1>8. disk'[d][p] = entry
  BY <1>4, <1>5
<1>9. kind # "removed" => (Exists(d, p) => entry.kind = disk[d][p].kind)
  BY <1>3 DEF IsFile, Exists
<1>10. \A q \in Paths \ {Root} : Front(q) = p /\ kind = "removed" => ~Exists(d, q)
  BY <1>3 DEF Children
<1>11. ASSUME NEW e \in Places, NEW q \in Paths
       PROVE  /\ IsDir(e, Root)'
              /\ disk'[e][q].time <= Now'
              /\ disk'[e][q].kind # "file" => disk'[e][q].len = 0
              /\ q # Root /\ Exists(e, q)' => IsDir(e, Front(q))'
  <2>1. IsDir(e, Root)' /\ Root \in Paths
    BY <1>7 DEF DiskOK, IsDir, Paths
  <2>2. disk'[e][q].time <= Now'
    <3>1. disk[e][q].time \in Nat /\ disk[e][q].time <= Now /\ entry.time \in Nat
      BY <1>4 DEF DiskOK, Entries
    <3>2. QED BY <1>2, <1>3, <1>7, <1>8, <3>1
  <2>3. disk'[e][q].kind # "file" => disk'[e][q].len = 0
    BY <1>3, <1>7, <1>8 DEF DiskOK
  <2>4. ASSUME q # Root, Exists(e, q)' PROVE IsDir(e, Front(q))'
    <3>1. Front(q) \in Paths /\ Front(q) # q
      BY <2>4, PathFacts DEF Paths, Root
    <3>2. CASE e = d /\ q = p
      <4>1. kind # "removed"
        BY <1>3, <1>8, <2>4, <3>2 DEF Exists
      <4>2. IsDir(d, Front(p))
        BY <1>3, <1>4, <4>1 DEF DiskOK, IsFile, Exists
      <4>3. QED BY <1>4, <1>7, <3>1, <3>2, <4>2 DEF IsDir
    <3>3. CASE e = d /\ Front(q) = p /\ q # p
      <4>1. Exists(d, q)
        BY <1>7, <2>4, <3>3 DEF Exists
      <4>2. kind # "removed" /\ IsDir(d, p)
        BY <1>10, <2>4, <3>3, <4>1 DEF DiskOK
      <4>3. entry.kind = "dir"
        BY <1>9, <4>2 DEF IsDir, Exists
      <4>4. QED BY <1>8, <3>3, <4>3 DEF IsDir
    <3>4. CASE e # d \/ (q # p /\ Front(q) # p)
      <4>1. Exists(e, q)
        BY <1>7, <2>4, <3>4 DEF Exists
      <4>2. IsDir(e, Front(q))
        BY <2>4, <4>1 DEF DiskOK
      <4>3. QED BY <1>7, <3>1, <3>4, <4>2 DEF IsDir
    <3>5. QED BY <3>2, <3>3, <3>4
  <2>5. QED BY <2>1, <2>2, <2>3, <2>4
<1>12. locked' \subseteq Lockable'
  <2>1. ASSUME NEW e \in locked' PROVE e \in Lockable'
    <3>1. /\ e \in locked /\ e \in Places \X Paths /\ Exists(e[1], e[2])
          /\ kind = "removed" => e # <<d, p>>
      <4>1. e \in locked /\ (kind = "removed" => e # <<d, p>>)
        BY <1>3, <2>1 DEF Change
      <4>2. QED BY <4>1 DEF DiskOK, Lockable, Places
    <3>2. e = <<e[1], e[2]>> /\ e[1] \in Places /\ e[2] \in Paths
      BY <3>1
    <3>3. Exists(e[1], e[2])'
      <4>1. CASE e[1] = d /\ e[2] = p
        BY <1>8, <1>9, <3>1, <3>2, <4>1 DEF Exists
      <4>2. CASE e[1] # d \/ e[2] # p
        BY <1>7, <3>1, <3>2, <4>2 DEF Exists
      <4>3. QED BY <4>1, <4>2
    <3>4. QED BY <3>1, <3>3 DEF Lockable, Places, Dirs
  <2>2. QED BY <2>1
<1>13. DiskOK'
  BY <1>2, <1>6, <1>11, <1>12 DEF DiskOK, Places, Dirs
<1>14. \A e \in Places, q \in Paths : Exists(e, q) =>
         /\ kind # "removed" => disk'[e][q].kind = disk[e][q].kind
         /\ kind = "created" => disk'[e][q].len = disk[e][q].len
  BY <1>3, <1>7, <1>8, <1>9
<1>15. Recorded(kind)
  BY <1>3, <1>14 DEF Change, Disturb, Recorded
<1>16. QED BY <1>2, <1>3, <1>13, <1>15

\* What others change, they record, and what they do not record has not been done.
LEMMA ChangeKeeps ==
  ASSUME DiskOK, Others
  PROVE  /\ DiskOK' /\ changes' = changes + 1 /\ pc # "crashed"
         /\ \E kind \in {"written", "removed", "created", "chmod"} : Recorded(kind)
         /\ UNCHANGED <<program, tree, pc, call, loop, reply>>
<1>1. PICK d \in Dirs, p \in Paths : Chmod(d, p) \/ (p # Root /\ Edit(d, p))
  BY DEF Others
<1>2. pc # "crashed" /\ UNCHANGED <<program, tree, pc, call, loop, reply>>
  BY <1>1 DEF Chmod, Edit, Change, Disturb
<1>3. CASE Chmod(d, p)
  BY <1>2, <1>3, ChmodKeeps
<1>4. CASE p # Root /\ Edit(d, p)
  BY <1>2, <1>4, EditKeeps
<1>5. QED BY <1>1, <1>3, <1>4

-----------------------------------------------------------------------------
LEMMA ShapeTypes == DiskOK /\ VarsOK => TypeOK
<1> SUFFICES ASSUME DiskOK, VarsOK PROVE TypeOK
  OBVIOUS
<1>1. Now \in Nat
  BY BoundsAssumption DEF DiskOK, Now
<1>2. ASSUME NEW d \in Dirs \cup {Cwd}, NEW p \in Paths
      PROVE  /\ disk[d][p] \in [kind : {"missing", "file", "dir"}, time : 0 .. Now, len : 0 .. 2]
             /\ p # Root /\ Exists(d, p) => IsDir(d, Front(p))
  <2>1. disk[d][p] \in Entries /\ disk[d][p].time <= Now
    BY <1>2 DEF DiskOK, Places
  <2>2. disk[d][p].time \in 0 .. Now
    BY <1>1, <2>1 DEF Entries
  <2>3. QED BY <1>2, <2>1, <2>2 DEF DiskOK, Places, Entries
<1>3. QED BY <1>2 DEF TypeOK, VarsOK, DiskOK

LEMMA ShapeInit == Init => Shape
<1> SUFFICES ASSUME Init PROVE Shape
  OBVIOUS
<1>1. DiskOK
  BY DiskInit
<1>2. Now \in Nat /\ DirCount \in Nat \ {0}
  BY <1>1, BoundsAssumption DEF DiskOK, Now
<1>3. tree \in [Paths -> Dirs \cup {Nowhere}]
  BY DEF Init, preprocess
<1>4. VarsOK
  BY <1>2, <1>3 DEF Init, VarsOK, Nowhere, Dirs
<1>5. ControlOK
  BY DEF Init, ControlOK
<1>6. QED BY <1>1, <1>4, <1>5 DEF Shape

LEMMA CallFacts ==
  ASSUME NEW c \in Calls
  PROVE  /\ c.op \in {"getattr", "readdir", "read"} /\ c.path \in Paths
         /\ c.range[1] \in {0, 1} /\ c.range[2] \in {1, 2}
  BY DEF Calls, Ranges

LEMMA MinOfTwo ==
  ASSUME NEW a \in Int, NEW b \in Int
  PROVE  Min({a, b}) = IF a <= b THEN a ELSE b
  BY DEF Min

LEMMA ChildrenNames ==
  ASSUME NEW d, NEW p PROVE Children(d, p) \subseteq {"a", "b"}
  BY PathFacts DEF Children, Paths

\* The size that Clamp takes.
LEMMA ClampSize ==
  ASSUME call \in Calls, NEW len \in 0 .. 2, call.range[1] < len
  PROVE  Min({call.range[2], len - call.range[1]}) \in 1 .. 2
<1>1. call.range[1] \in {0, 1} /\ call.range[2] \in {1, 2}
  BY CallFacts
<1>2. QED BY <1>1, MinOfTwo

LEMMA ShapeStep == Shape /\ [Next]_vars => Shape'
<1> SUFFICES ASSUME Shape, [Next]_vars PROVE Shape'
  OBVIOUS
<1> USE DEF Shape
<1>1. Now \in Nat /\ DirCount \in Nat \ {0} /\ Dirs = 1 .. DirCount /\ Nowhere = DirCount + 1
  BY BoundsAssumption DEF DiskOK, Now, Dirs, Nowhere
<1>2. CASE UNCHANGED <<disk, locked, changes>> /\ VarsOK' /\ ControlOK'
  <2>1. Lockable' = Lockable
    BY <1>2, SameModes DEF Lockable, Dirs, Cwd
  <2>2. QED BY <1>2, <2>1 DEF DiskOK, Now, IsDir, Exists
<1>3. CASE UNCHANGED vars
  BY <1>2, <1>3 DEF vars, mount, loop, lookup, VarsOK, ControlOK, Now
<1>4. CASE Others
  <2>1. DiskOK' /\ Now' = Now + 1
    <3>1. DiskOK' /\ changes' = changes + 1
      BY <1>4, ChangeKeeps
    <3>2. changes \in Nat /\ MaxTime \in Nat
      BY BoundsAssumption DEF DiskOK
    <3>3. QED BY <3>1, <3>2 DEF Now
  <2>2. VarsOK'
    <3>1. disturbed' \subseteq {"written", "removed", "created", "chmod"}
      BY <1>4, ChangeKeeps DEF VarsOK, Recorded
    <3>2. last_time \in 0 .. Now' /\ UNCHANGED <<program, tree, pc, call, loop>>
      BY <1>1, <1>4, <2>1, ChangeKeeps DEF VarsOK, loop, lookup
    <3>3. QED BY <3>1, <3>2 DEF VarsOK, loop, lookup
  <2>3. ControlOK'
    <3>1. /\ UNCHANGED <<program, pc, call, loop, reply>>
          /\ pc = "idle" => disturbed' = disturbed
      BY <1>4, ChangeKeeps DEF Recorded
    <3>2. QED BY <3>1 DEF ControlOK, loop, lookup
  <2>4. QED BY <2>1, <2>2, <2>3
<1>5. CASE Program
  <2>1. UNCHANGED <<program, disk, locked, changes, tree>> /\ Now' = Now
    BY <1>5, ProgramKeeps DEF Now
  <2>2. CASE Begin
    <3>1. /\ pc = "idle" /\ call' \in Calls
          /\ pc' \in {"check", "cached", "exists"}
          /\ pc' = "check" <=> call'.op = "readdir"
          /\ pc' = "cached" => program = "inf24_1"
          /\ pc' = "exists" => program = "main_c"
          /\ UNCHANGED <<mount, dir, best, last_time, subdirs, names, size, reply>>
      BY <2>2 DEF Begin, loop, lookup, VarsOK
    <3>2. /\ dir = 1 /\ best = Nowhere /\ last_time = 0 /\ subdirs = <<>> /\ names = {}
          /\ size = 0 /\ disturbed = {} /\ reply = NoReply
      BY <3>1 DEF ControlOK
    <3>3. VarsOK'
      BY <2>1, <3>1 DEF VarsOK, mount
    <3>4. ControlOK'
      BY <1>1, <2>1, <3>1, <3>2 DEF ControlOK, mount, Cwd
    <3>5. QED BY <1>2, <2>1, <3>3, <3>4
  <2>3. CASE End
    BY <1>1, <1>2, <2>1, <2>3 DEF End, VarsOK, ControlOK
  <2>4. CASE get_last_changed_name
    BY <1>1, <1>2, <2>1, <2>4, CallFacts
       DEF get_last_changed_name, Reply, Error, VarsOK, ControlOK, mount, Places
  <2>5. CASE LookForPath
    <3>1. /\ pc = "exists" /\ program = "main_c" /\ call \in Calls /\ call.op # "readdir"
          /\ best # Cwd /\ reply = NoReply
          /\ UNCHANGED <<mount, call, last_time, subdirs, names, size, reply>>
      BY <2>5 DEF LookForPath, Crash, ControlOK
    <3>2. CASE dir = Nowhere
      <4>1. /\ pc' = IF call.op = "read" THEN "regular" ELSE "stat"
            /\ dir' = dir /\ best' \in Places
        BY <1>1, <2>5, <3>1, <3>2 DEF LookForPath, VarsOK, Places, Cwd
      <4>2. VarsOK'
        BY <1>1, <2>1, <3>1, <4>1 DEF VarsOK, mount, Places, Cwd
      <4>3. ControlOK'
        BY <2>1, <3>1, <4>1, CallFacts DEF ControlOK, mount
      <4>4. QED BY <1>2, <2>1, <4>2, <4>3
    <3>3. CASE dir # Nowhere
      <4>1. /\ pc' \in {"time", "exists", "crashed"} /\ best' = best
            /\ dir' \in 1 .. Nowhere /\ (pc' = "time" => dir' \in Dirs)
        BY <1>1, <2>5, <3>1, <3>3 DEF LookForPath, Crash, VarsOK
      <4>2. VarsOK'
        BY <2>1, <3>1, <4>1 DEF VarsOK, mount
      <4>3. ControlOK'
        BY <2>1, <3>1, <4>1 DEF ControlOK, mount
      <4>4. QED BY <1>2, <2>1, <4>2, <4>3
    <3>4. QED BY <3>2, <3>3
  <2>6. CASE TakeNewer
    <3>1. call.path \in Paths /\ dir \in Dirs
      BY <2>6, CallFacts DEF TakeNewer, ControlOK
    <3>2. disk[dir][call.path].time \in 0 .. Now
      BY <1>1, <3>1 DEF DiskOK, Places, Entries
    <3>3. /\ pc = "time" /\ UNCHANGED <<mount, call, subdirs, names, size, reply>>
          /\ \/ pc' = "crashed" /\ UNCHANGED lookup
             \/ /\ pc' = "exists" /\ dir' = dir + 1
                /\ \/ best' = dir /\ last_time' \in 0 .. Now
                   \/ UNCHANGED <<best, last_time>>
      BY <2>6, <3>2 DEF TakeNewer, Crash
    <3>4. /\ program = "main_c" /\ call \in Calls /\ call.op # "readdir" /\ best # Cwd
          /\ reply = NoReply
      BY <3>3 DEF ControlOK
    <3>5. dir' \in 1 .. Nowhere /\ best' \in 0 .. Nowhere /\ best' # Cwd
          /\ last_time' \in 0 .. Now
      BY <1>1, <3>1, <3>3, <3>4 DEF VarsOK, lookup, Cwd
    <3>6. VarsOK'
      BY <2>1, <3>3, <3>5 DEF VarsOK, mount
    <3>7. ControlOK'
      BY <2>1, <3>3, <3>4, <3>5 DEF ControlOK, mount
    <3>8. QED BY <1>2, <2>1, <3>6, <3>7
  <2>7. CASE GetAttr
    BY <1>2, <2>1, <2>7 DEF GetAttr, Reply, VarsOK, ControlOK, mount, loop, lookup
  <2>8. ASSUME NEW len \in 0 .. 2, Clamp(len), UNCHANGED <<mount, call, lookup, subdirs, names>>,
               pc \in {"stat", "size"}, call.op = "read"
        PROVE  Shape'
    <3>1. call \in Calls /\ reply = NoReply /\ best \in Places
      BY <2>8 DEF ControlOK
    <3>2. \/ /\ pc' = "open" /\ reply' = reply /\ size' \in 1 .. 2
          \/ /\ pc' = "replied" /\ size' = size
      <4>1. CASE call.range[1] >= len
        BY <2>8, <4>1 DEF Clamp, Reply
      <4>2. CASE ~(call.range[1] >= len)
        <5>1. call.range[1] < len
          BY <3>1, <4>2, CallFacts
        <5>2. QED BY <2>8, <3>1, <4>2, <5>1, ClampSize DEF Clamp
      <4>3. QED BY <4>1, <4>2
    <3>3. VarsOK'
      BY <2>1, <2>8, <3>2 DEF VarsOK, mount, lookup
    <3>4. ControlOK'
      BY <2>1, <2>8, <3>1, <3>2 DEF ControlOK, mount, lookup
    <3>5. QED BY <1>2, <2>1, <3>3, <3>4
  <2>9. pc \in {"stat", "size"} => disk[best][call.path].len \in 0 .. 2
    BY CallFacts DEF ControlOK, DiskOK, Entries
  <2>10. CASE ReadStat
    <3>1. CASE IsDir(best, call.path) /\ ~Hidden(best, call.path)
      BY <1>2, <2>1, <2>10, <3>1 DEF ReadStat, Reply, VarsOK, ControlOK, mount, lookup
    <3>2. QED BY <2>8, <2>9, <2>10, <3>1 DEF ReadStat
  <2>11. CASE IsRegular
    BY <1>2, <2>1, <2>11 DEF IsRegular, Reply, Crash, VarsOK, ControlOK, mount, loop, lookup
  <2>12. CASE FileSize
    <3>1. CASE ~(IsFile(best, call.path) /\ ~Hidden(best, call.path))
      BY <1>2, <2>1, <2>12, <3>1 DEF FileSize, Crash, VarsOK, ControlOK, mount, lookup
    <3>2. QED BY <2>8, <2>9, <2>12, <3>1 DEF FileSize, ControlOK
  <2>13. CASE ReadFile
    BY <1>2, <2>1, <2>13 DEF ReadFile, Reply, VarsOK, ControlOK, mount, loop, lookup
  <2>14. CASE CheckDir /\ ~Hidden(dir, call.path)
    <3>1. /\ pc = "check" /\ dir \in Dirs /\ dir' = dir + 1
          /\ UNCHANGED <<mount, call, best, last_time, names, size, reply>>
          /\ subdirs \in Seq(Dirs) /\ program \in {"inf24_1", "main_c"}
          /\ IF program = "main_c" THEN subdirs = <<>> ELSE names = {}
      BY <1>1, <2>14 DEF CheckDir, VarsOK, ControlOK
    <3>2. \/ /\ pc' = "check" /\ subdirs' = subdirs
          \/ /\ pc' = "check" /\ subdirs' = Append(subdirs, dir) /\ program = "inf24_1"
          \/ /\ pc' = "list" /\ subdirs' = Append(subdirs, dir) /\ program = "main_c"
      BY <2>14, <3>1 DEF CheckDir
    <3>3. /\ subdirs' \in Seq(Dirs)
          /\ pc' = "list" => Len(subdirs') = 1
      <4>1. Append(subdirs, dir) \in Seq(Dirs) /\ Len(Append(subdirs, dir)) = Len(subdirs) + 1
        BY <3>1
      <4>2. subdirs = <<>> => Len(subdirs) = 0
        OBVIOUS
      <4>3. pc' = "list" => subdirs' = Append(subdirs, dir) /\ Len(subdirs) = 0
        <5>1. pc' = "list" => subdirs' = Append(subdirs, dir) /\ program = "main_c"
          BY <3>2
        <5>2. QED BY <3>1, <4>2, <5>1
      <4>4. subdirs' = subdirs \/ subdirs' = Append(subdirs, dir)
        BY <3>2
      <4>5. subdirs' \in Seq(Dirs)
        BY <3>1, <4>1, <4>4
      <4>6. pc' = "list" => Len(subdirs') = 1
        <5>1. ASSUME pc' = "list"
              PROVE  Len(subdirs') = Len(Append(subdirs, dir)) /\ Len(subdirs) = 0
          BY <4>3, <5>1
        <5>2. QED BY <4>1, <5>1
      <4>7. QED BY <4>5, <4>6
    <3>4. VarsOK'
      BY <1>1, <2>1, <3>1, <3>2, <3>3 DEF VarsOK, mount
    <3>5. ControlOK'
      BY <2>1, <3>1, <3>2, <3>3 DEF ControlOK, mount
    <3>6. QED BY <1>2, <2>1, <3>4, <3>5
  <2>141. CASE CheckDir /\ Hidden(dir, call.path)
    BY <1>2, <2>1, <2>141 DEF CheckDir, Crash, VarsOK, ControlOK, mount
  <2>15. CASE EndOfDirs
    BY <1>1, <1>2, <2>1, <2>15
       DEF EndOfDirs, Reply, VarsOK, ControlOK, mount, loop, lookup
  <2>16. CASE ListDir
    <3>1. /\ pc = "list" /\ subdirs # <<>> /\ subdirs \in Seq(Dirs)
          /\ IF program = "main_c" THEN Len(subdirs) = 1 ELSE dir = Nowhere
          /\ UNCHANGED <<mount, call, dir, best, last_time, size>> /\ reply' = reply
      BY <2>16 DEF ListDir, Crash, VarsOK, ControlOK, lookup
    <3>2. \/ /\ pc' = "crashed" /\ UNCHANGED <<names, subdirs>>
          \/ /\ pc' = IF program = "main_c" THEN "check" ELSE "list"
             /\ subdirs' = Tail(subdirs)
             /\ names' = names \cup Children(Head(subdirs), call.path)
      BY <2>16 DEF ListDir, Crash
    <3>3. /\ subdirs' \in Seq(Dirs) /\ names' \subseteq {"a", "b"}
          /\ pc' = "check" => subdirs' = <<>>
      <4>1. subdirs' = subdirs \/ subdirs' = Tail(subdirs)
        BY <3>2
      <4>2. Tail(subdirs) \in Seq(Dirs) /\ (Len(subdirs) = 1 => Tail(subdirs) = <<>>)
        <5>1. Tail(subdirs) \in Seq(Dirs) /\ Len(Tail(subdirs)) = Len(subdirs) - 1
          BY <3>1, HeadTailProperties
        <5>2. QED BY <5>1, EmptySeq
      <4>3. names' \subseteq {"a", "b"}
        BY <3>2, ChildrenNames DEF VarsOK
      <4>4. pc' = "check" => subdirs' = Tail(subdirs) /\ program = "main_c"
        BY <3>2
      <4>5. QED BY <3>1, <4>1, <4>2, <4>3, <4>4
    <3>4. VarsOK'
      BY <2>1, <3>1, <3>2, <3>3 DEF VarsOK, mount
    <3>5. ControlOK'
      BY <2>1, <3>1, <3>2, <3>3 DEF ControlOK, mount
    <3>6. QED BY <1>2, <2>1, <3>4, <3>5
  <2>17. CASE EndOfList
    BY <1>2, <2>1, <2>17 DEF EndOfList, Reply, VarsOK, ControlOK, mount, loop, lookup
  <2>18. QED
    BY <1>5, <2>2, <2>3, <2>4, <2>5, <2>6, <2>7, <2>10, <2>11, <2>12, <2>13, <2>14,
       <2>141, <2>15, <2>16, <2>17 DEF Program
<1>6. QED BY <1>3, <1>4, <1>5 DEF Next, Crashed

-----------------------------------------------------------------------------
LEMMA IntervalSize ==
  ASSUME NEW a \in Nat, NEW n \in Nat
  PROVE  Cardinality(a + 1 .. a + n) = n
<1>1. a + 1 \in Int /\ a + n \in Int
  OBVIOUS
<1>2. Cardinality(a + 1 .. a + n) = IF a + 1 > a + n THEN 0 ELSE a + n - (a + 1) + 1
  BY <1>1, FS_Interval
<1>3. QED BY <1>2

\* A step of others leaves what the callback has looked at, or says what it did.
LEMMA EntryOthers ==
  ASSUME Shape, EntryOK, Others
  PROVE  EntryOK'
<1>1. PICK kind \in {"written", "removed", "created", "chmod"} :
        /\ disturbed' = IF pc = "idle" THEN disturbed ELSE disturbed \cup {kind}
        /\ \A d \in Places, p \in Paths : Exists(d, p) =>
             /\ kind # "removed" => disk'[d][p].kind = disk[d][p].kind
             /\ kind \in {"created", "chmod"} => disk'[d][p].len = disk[d][p].len
        /\ kind \notin {"removed", "chmod"} => locked' = locked
  BY ChangeKeeps DEF Shape, Recorded
<1>2. UNCHANGED <<program, pc, call, dir, best, subdirs, size, reply>> /\ pc # "crashed"
  BY ChangeKeeps DEF Shape, loop, lookup
<1>3. CASE pc = "idle"
  BY <1>2, <1>3 DEF EntryOK, ControlOK, Shape, NoReply
<1>4. CASE pc # "idle"
  <2>1. disturbed' = disturbed \cup {kind} /\ call.path \in Paths
    BY <1>1, <1>2, <1>4, CallFacts DEF ControlOK, Shape
  <2>2. ASSUME "removed" \notin disturbed'
        PROVE  /\ pc' = "time" => Exists(dir, call.path)'
               /\ pc' = "size" => IsFile(best, call.path)'
               /\ pc' \in {"check", "list"} =>
                    \A n \in 1 .. Len(subdirs') : IsDir(subdirs[n], call.path)'
    <3>1. kind # "removed" /\ "removed" \notin disturbed
      BY <2>1, <2>2
    <3>2. ASSUME pc = "time" PROVE Exists(dir, call.path)'
      <4>1. Exists(dir, call.path) /\ dir \in Places
        BY <3>1, <3>2 DEF EntryOK, ControlOK, Shape, Places
      <4>2. QED BY <1>1, <1>2, <2>1, <3>1, <4>1 DEF Exists
    <3>3. ASSUME pc = "size" PROVE IsFile(best, call.path)'
      <4>1. IsFile(best, call.path) /\ best \in Places
        BY <3>1, <3>3 DEF EntryOK, ControlOK, Shape
      <4>2. QED BY <1>1, <1>2, <2>1, <3>1, <4>1 DEF IsFile, Exists
    <3>4. ASSUME pc \in {"check", "list"}, NEW n \in 1 .. Len(subdirs)
          PROVE  IsDir(subdirs[n], call.path)'
      <4>1. IsDir(subdirs[n], call.path)
        BY <3>1, <3>4 DEF EntryOK
      <4>2. subdirs[n] \in Places
        BY <3>4 DEF VarsOK, Shape, Places
      <4>3. QED BY <1>1, <1>2, <2>1, <3>1, <4>1, <4>2 DEF IsDir, Exists
    <3>5. QED BY <1>2, <3>2, <3>3, <3>4
  <2>3. ASSUME disturbed' \cap {"written", "removed", "chmod"} = {}, pc = "open"
        PROVE  LET len == disk'[best][call.path].len
               IN  /\ call.range[1] < len
                   /\ size = Min({call.range[2], len - call.range[1]})
    <3>1. kind = "created" /\ disturbed \cap {"written", "removed", "chmod"} = {}
      BY <2>1, <2>3
    <3>2. /\ call.range[1] < disk[best][call.path].len
          /\ size = Min({call.range[2], disk[best][call.path].len - call.range[1]})
      BY <2>3, <3>1 DEF EntryOK
    <3>3. best \in Places /\ call.range[1] \in {0, 1}
      BY <2>3, CallFacts DEF ControlOK, Shape
    <3>4. Exists(best, call.path)
      <4>1. disk[best][call.path].len # 0
        BY <3>2, <3>3
      <4>2. QED BY <2>1, <3>3, <4>1 DEF Shape, DiskOK, Exists
    <3>5. disk'[best][call.path].len = disk[best][call.path].len
      BY <1>1, <2>1, <3>1, <3>3, <3>4
    <3>6. QED BY <3>2, <3>5
  <2>4. ASSUME disturbed' \cap {"written", "removed", "chmod"} = {}, reply.what = "data"
        PROVE  reply.claimed = reply.got \/ Unreadable(reply.from, call.path)'
    <3>1. kind = "created" /\ locked' = locked
      BY <1>1, <2>1, <2>4
    <3>2. reply.claimed = reply.got \/ Unreadable(reply.from, call.path)
      BY <2>1, <2>4 DEF EntryOK
    <3>3. \A d, p : Closed(d, p) => Closed(d, p)'
      <4>1. ASSUME NEW d, NEW p, Closed(d, p) PROVE Closed(d, p)'
        <5>1. IsDir(d, p) /\ <<d, p>> \in locked
          BY <4>1 DEF Closed
        <5>2. d \in Places /\ p \in Paths /\ Exists(d, p)
          <6>1. <<d, p>> \in Places \X Paths /\ Exists(<<d, p>>[1], <<d, p>>[2])
            BY <5>1 DEF Shape, DiskOK, Lockable, Places
          <6>2. QED BY <6>1
        <5>3. IsDir(d, p)'
          BY <1>1, <3>1, <5>1, <5>2 DEF IsDir
        <5>4. QED BY <3>1, <5>1, <5>3 DEF Closed
      <4>2. QED BY <4>1
    <3>4. Unreadable(reply.from, call.path) => Unreadable(reply.from, call.path)'
      BY <1>2, <3>1, <3>3 DEF Unreadable, Hidden
    <3>5. QED BY <1>2, <3>2, <3>4
  <2>5. QED BY <1>2, <2>2, <2>3, <2>4 DEF EntryOK
<1>5. QED BY <1>3, <1>4

LEMMA EntryNothing ==
  ASSUME EntryOK, pc' = "replied", reply' = Data(best, 0, 0)
  PROVE  EntryOK'
  BY DEF EntryOK, Data

LEMMA EntryCrash ==
  ASSUME Shape, pc' = "crashed", UNCHANGED <<disk, locked, call, disturbed, reply>>,
         pc \notin {"replied", "crashed"},
         \/ "removed" \in disturbed
         \/ \E d \in Places : Hidden(d, call.path) \/ Closed(d, call.path)
  PROVE  EntryOK'
<1>1. reply' = NoReply
  BY DEF Shape, ControlOK
<1>2. \/ "removed" \in disturbed'
      \/ \E d \in Places' : Hidden(d, call.path)' \/ Closed(d, call.path)'
  BY SameModes DEF Places, Dirs, Cwd
<1>3. QED BY <1>1, <1>2 DEF EntryOK, NoReply, Places, Dirs, Cwd

LEMMA EntryClamp ==
  ASSUME Shape, EntryOK, Clamp(disk[best][call.path].len),
         pc \in {"stat", "size"}, UNCHANGED <<mount, call, lookup, subdirs, names>>
  PROVE  EntryOK'
<1>1. CASE call.range[1] >= disk[best][call.path].len
  BY <1>1, EntryNothing DEF Clamp, Reply, mount
<1>2. CASE ~(call.range[1] >= disk[best][call.path].len)
  <2>1. /\ pc' = "open" /\ reply' = NoReply
        /\ size' = Min({call.range[2], disk[best][call.path].len - call.range[1]})
    BY <1>2 DEF Clamp, ControlOK, Shape
  <2>2. call.range[1] \in {0, 1} /\ best \in Places /\ call.path \in Paths
    BY CallFacts DEF ControlOK, Shape
  <2>3. disk[best][call.path].len \in Nat
    BY <2>2 DEF Shape, DiskOK, Entries
  <2>4. call.range[1] < disk[best][call.path].len
    BY <1>2, <2>2, <2>3
  <2>5. QED BY <2>1, <2>4 DEF EntryOK, mount, lookup, NoReply
<1>3. QED BY <1>1, <1>2

LEMMA EntryStep ==
  ASSUME Shape, EntryOK, [Next]_vars
  PROVE  EntryOK'
<1>1. CASE UNCHANGED vars
  BY <1>1, SameModes DEF vars, mount, loop, lookup, EntryOK, Places, Dirs, Cwd
<1>2. CASE Program
  <2>1. UNCHANGED <<program, disk, locked, changes, tree>>
    BY <1>2, ProgramKeeps
  <2>2. ASSUME UNCHANGED <<call, disturbed>>, pc' \notin {"time", "size", "check", "list", "open", "crashed"},
               reply'.what # "data"
        PROVE  EntryOK'
    BY <2>2 DEF EntryOK
  <2>3. CASE Begin
    <3>1. /\ pc' \in {"check", "cached", "exists"} /\ subdirs' = <<>> /\ reply' = NoReply
      BY <2>3 DEF Begin, loop, Shape, ControlOK
    <3>2. QED BY <3>1 DEF EntryOK, NoReply
  <2>4. CASE End
    BY <2>4 DEF End, EntryOK, NoReply
  <2>5. CASE get_last_changed_name
    BY <2>2, <2>5 DEF get_last_changed_name, Reply, Error, mount, Shape, ControlOK, NoReply
  <2>6. CASE LookForPath
    <3>1. /\ pc = "exists" /\ reply' = NoReply /\ UNCHANGED <<call, disturbed>>
          /\ \/ pc' \in {"regular", "stat", "exists"}
             \/ pc' = "time" /\ dir' = dir /\ Exists(dir, call.path)
             \/ pc' = "crashed" /\ Hidden(dir, call.path) /\ dir # Nowhere
      BY <2>6 DEF LookForPath, Crash, mount, Shape, ControlOK
    <3>2. CASE pc' = "time"
      BY <2>1, <3>1, <3>2 DEF EntryOK, Exists, NoReply
    <3>3. CASE pc' = "crashed"
      <4>1. dir \in Places /\ reply' = reply
        BY <3>1, <3>3, BoundsAssumption DEF Shape, VarsOK, ControlOK, Places, Dirs, Nowhere
      <4>2. QED BY <2>1, <3>1, <3>3, <4>1, EntryCrash
    <3>4. QED BY <2>2, <3>1, <3>2, <3>3 DEF NoReply
  <2>7. CASE TakeNewer
    <3>1. /\ pc = "time" /\ reply' = NoReply /\ UNCHANGED <<call, disturbed, reply>>
          /\ pc' = IF Visible(dir, call.path) THEN "exists" ELSE "crashed"
          /\ dir \in Places
      BY <2>7 DEF TakeNewer, Crash, mount, Shape, ControlOK, Places
    <3>2. CASE Visible(dir, call.path)
      BY <3>1, <3>2 DEF EntryOK, NoReply
    <3>3. CASE ~Visible(dir, call.path)
      BY <2>1, <3>1, <3>3, EntryCrash DEF EntryOK, Visible
    <3>4. QED BY <3>2, <3>3
  <2>8. CASE GetAttr
    BY <2>2, <2>8 DEF GetAttr, Reply, Attributes, Error, mount
  <2>9. CASE ReadStat
    <3>1. CASE Hidden(best, call.path)
      <4>1. call.range[1] >= 0
        BY <2>9, CallFacts DEF ReadStat, Shape, ControlOK
      <4>2. QED BY <2>9, <3>1, <4>1, EntryNothing DEF ReadStat, Clamp, Reply
    <3>2. CASE ~Hidden(best, call.path) /\ IsDir(best, call.path)
      BY <2>2, <2>9, <3>2 DEF ReadStat, Reply, Error, mount
    <3>3. QED BY <2>9, <3>1, <3>2, EntryClamp DEF ReadStat
  <2>10. CASE IsRegular
    <3>0. pc = "regular" /\ best \in Places /\ UNCHANGED <<call, disturbed>>
      BY <2>10 DEF IsRegular, mount, Shape, ControlOK
    <3>1. CASE IsFile(best, call.path) /\ ~Hidden(best, call.path)
      <4>1. pc' = "size" /\ reply' = NoReply /\ UNCHANGED <<call, best, disturbed>>
        BY <2>10, <3>1 DEF IsRegular, mount, loop, lookup, Shape, ControlOK
      <4>2. QED BY <2>1, <3>1, <4>1 DEF EntryOK, IsFile, NoReply
    <3>2. CASE ~IsFile(best, call.path) /\ ~Hidden(best, call.path)
      BY <2>10, <3>2, EntryNothing DEF IsRegular, Reply
    <3>3. CASE Hidden(best, call.path)
      BY <2>1, <2>10, <3>0, <3>3, EntryCrash DEF IsRegular, Crash
    <3>4. QED BY <3>1, <3>2, <3>3
  <2>11. CASE FileSize
    <3>1. CASE IsFile(best, call.path) /\ ~Hidden(best, call.path)
      BY <2>11, <3>1, EntryClamp DEF FileSize
    <3>2. CASE ~(IsFile(best, call.path) /\ ~Hidden(best, call.path))
      <4>1. /\ pc = "size" /\ pc' = "crashed" /\ best \in Places
            /\ UNCHANGED <<call, disturbed, reply>>
        BY <2>11, <3>2 DEF FileSize, Crash, mount, Shape, ControlOK
      <4>2. QED BY <2>1, <3>2, <4>1, EntryCrash DEF EntryOK
    <3>3. QED BY <3>1, <3>2
  <2>12. CASE ReadFile
    <3> DEFINE len == disk[best][call.path].len
               seen == IF Unreadable(best, call.path) THEN 0 ELSE len
               got == Cardinality(call.range[1] + 1 .. Min({call.range[1] + size, len}))
    <3>1. /\ pc = "open" /\ pc' = "replied" /\ UNCHANGED <<call, disturbed>>
          /\ reply' = Data(best, size, Cardinality(call.range[1] + 1
                                         .. Min({call.range[1] + size, seen})))
      BY <2>12 DEF ReadFile, Reply, mount
    <3>2. call.range[1] \in {0, 1} /\ call.range[2] \in {1, 2} /\ len \in Nat /\ size \in Nat
      BY <3>1, CallFacts DEF ControlOK, Shape, DiskOK, Entries, VarsOK
    <3>3. ASSUME disturbed \cap {"written", "removed", "chmod"} = {}
          PROVE  size = got
      <4>1. call.range[1] < len /\ size = Min({call.range[2], len - call.range[1]})
        BY <3>1, <3>3 DEF EntryOK
      <4>2. Min({call.range[2], len - call.range[1]}) <= len - call.range[1]
        <5> DEFINE wanted == call.range[2]
                   rest == len - call.range[1]
        <5> HIDE DEF len
        <5>1. wanted \in Int /\ rest \in Int
          BY <3>2
        <5> HIDE DEF wanted, rest
        <5>2. Min({wanted, rest}) <= rest
          BY <5>1, MinOfTwo
        <5>3. QED BY <5>2 DEF wanted, rest
      <4>3. Min({call.range[1] + size, len}) = call.range[1] + size
        <5> DEFINE from == call.range[1]
        <5>1. from \in Int /\ len \in Int /\ size \in Int /\ size <= len - from
          BY <3>2, <4>1, <4>2
        <5> HIDE DEF len, from
        <5>2. from + size \in Int /\ from + size <= len
          BY <5>1
        <5>3. Min({from + size, len}) = from + size
          BY <5>1, <5>2, MinOfTwo
        <5>4. QED BY <5>3 DEF from
      <4>4. call.range[1] \in Nat /\ size \in Nat /\ got = Cardinality(call.range[1] + 1 .. call.range[1] + size)
        BY <3>2, <4>3
      <4> HIDE DEF len, got
      <4>5. QED BY <4>4, IntervalSize
    <3>4. CASE Unreadable(best, call.path)
      <4>1. Unreadable(reply.from, call.path)' /\ reply'.what = "data"
        BY <2>1, <3>1, <3>4, SameModes DEF Data
      <4>2. QED BY <3>1, <4>1 DEF EntryOK
    <3>5. CASE ~Unreadable(best, call.path)
      <4>1. reply' = Data(best, size, got)
        BY <3>1, <3>5
      <4>2. QED BY <3>1, <3>3, <4>1 DEF EntryOK, Data
    <3>6. QED BY <3>4, <3>5
  <2>130. CASE CheckDir /\ Hidden(dir, call.path)
    <3>1. /\ pc = "check" /\ pc' = "crashed" /\ UNCHANGED <<call, disturbed, reply>>
          /\ dir \in Places
      BY <2>130, BoundsAssumption
         DEF CheckDir, Crash, mount, Shape, VarsOK, Places, Dirs, Nowhere
    <3>2. QED BY <2>1, <2>130, <3>1, EntryCrash
  <2>13. CASE CheckDir /\ ~Hidden(dir, call.path)
    <3>1. /\ pc = "check" /\ pc' \in {"check", "list"} /\ reply' = NoReply
          /\ UNCHANGED <<call, disturbed>>
          /\ IF IsDir(dir, call.path) THEN subdirs' = Append(subdirs, dir) ELSE subdirs' = subdirs
      BY <2>13 DEF CheckDir, mount, Shape, ControlOK
    <3>2. subdirs \in Seq(Dirs)
      BY DEF Shape, VarsOK
    <3>3. ASSUME "removed" \notin disturbed, NEW n \in 1 .. Len(subdirs')
          PROVE  IsDir(subdirs'[n], call.path)
      <4>1. \A m \in 1 .. Len(subdirs) : IsDir(subdirs[m], call.path)
        BY <3>1, <3>3 DEF EntryOK
      <4>2. CASE IsDir(dir, call.path)
        BY <3>1, <3>2, <3>3, <4>1, <4>2
      <4>3. QED BY <3>1, <3>3, <4>1, <4>2
    <3>4. QED BY <2>1, <3>1, <3>3 DEF EntryOK, NoReply, IsDir
  <2>14. CASE EndOfDirs
    <3>1. CASE pc' = "list"
      <4>1. pc = "check" /\ reply' = NoReply /\ UNCHANGED <<call, subdirs, disturbed>>
        BY <2>14, <3>1 DEF EndOfDirs, Reply, mount, loop, Shape, ControlOK
      <4>2. QED BY <2>1, <3>1, <4>1 DEF EntryOK, NoReply, IsDir
    <3>2. CASE pc' # "list"
      BY <2>2, <2>14, <3>2 DEF EndOfDirs, Reply, Error, mount
    <3>3. QED BY <3>1, <3>2
  <2>15. CASE ListDir
    <3>1. /\ pc = "list" /\ subdirs # <<>> /\ subdirs \in Seq(Dirs) /\ reply' = NoReply
          /\ UNCHANGED <<call, disturbed>>
      BY <2>15 DEF ListDir, Crash, mount, Shape, ControlOK, VarsOK
    <3>2. Head(subdirs) = subdirs[1] /\ 1 \in 1 .. Len(subdirs)
      BY <3>1
    <3>3. CASE IsDir(Head(subdirs), call.path) /\ ~Unreadable(Head(subdirs), call.path)
      <4>1. pc' \in {"check", "list"} /\ subdirs' = Tail(subdirs)
        BY <2>15, <3>1, <3>3 DEF ListDir
      <4>2. \A n \in 1 .. Len(subdirs') : n + 1 \in 1 .. Len(subdirs) /\ subdirs'[n] = subdirs[n + 1]
        BY <3>1, <4>1
      <4>3. "removed" \notin disturbed =>
              \A n \in 1 .. Len(subdirs') : IsDir(subdirs'[n], call.path)
        BY <3>1, <4>2 DEF EntryOK
      <4>4. QED BY <2>1, <3>1, <4>1, <4>3 DEF EntryOK, NoReply, IsDir
    <3>4. CASE ~(IsDir(Head(subdirs), call.path) /\ ~Unreadable(Head(subdirs), call.path))
      <4>1. pc' = "crashed" /\ reply' = reply /\ Head(subdirs) \in Places
        BY <2>15, <3>1, <3>2, <3>4 DEF ListDir, Crash, Places
      <4>2. "removed" \notin disturbed => IsDir(Head(subdirs), call.path)
        BY <3>1, <3>2 DEF EntryOK
      <4>3. "removed" \notin disturbed =>
              Hidden(Head(subdirs), call.path) \/ Closed(Head(subdirs), call.path)
        BY <3>4, <4>2 DEF Unreadable, Closed
      <4>4. QED BY <2>1, <3>1, <4>1, <4>3, EntryCrash
    <3>5. QED BY <3>3, <3>4
  <2>16. CASE EndOfList
    BY <2>2, <2>16 DEF EndOfList, Reply, mount
  <2>17. QED
    BY <1>2, <2>3, <2>4, <2>5, <2>6, <2>7, <2>8, <2>9, <2>10, <2>11, <2>12, <2>13,
       <2>130, <2>14, <2>15, <2>16 DEF Program
<1>3. QED BY <1>1, <1>2, EntryOthers DEF Next, Crashed

\* Whatever others do to the directories, a callback of either program only dies
\* of something removed while it ran or of a closed directory at its path or above,
\* and only claims more bytes than it has read when the file was written, removed
\* or given another mode after its length was taken or may not be read.
THEOREM OnlyOthersHurt == Spec => []Inv
<1>1. Init => Shape /\ EntryOK
  BY ShapeInit DEF Init, EntryOK, NoReply
<1>2. (Shape /\ EntryOK) /\ [Next]_vars => (Shape /\ EntryOK)'
  BY ShapeStep, EntryStep
<1>3. Shape /\ EntryOK => Inv
  BY ShapeTypes DEF Shape, EntryOK, Inv, OnlyChangesHurt, Places
<1>4. QED BY <1>1, <1>2, <1>3, PTL DEF Spec

-----------------------------------------------------------------------------
\* As long as nothing changes, the answer is the one of the merged directories.
Serving == TreeOK /\ LoopOK /\ ChoiceOK /\ ClearOK /\ ServesTheMerge

\* What the answer depends on has not changed.
LEMMA SameDisk ==
  ASSUME UNCHANGED <<program, disk, locked, changes, call>>
  PROVE  /\ Merged(call)' = Merged(call) /\ NotPromised' = NotPromised
         /\ \A p : Newest(p)' = Newest(p) /\ Having(p)' = Having(p)
         /\ \A d, p : Exists(d, p)' = Exists(d, p) /\ IsDir(d, p)' = IsDir(d, p)
         /\ \A ds : Listing(ds)' = Listing(ds) /\ IsDirs(ds)' = IsDirs(ds)
<1>1. \A d, p : /\ Exists(d, p)' = Exists(d, p) /\ IsDir(d, p)' = IsDir(d, p)
                /\ Children(d, p)' = Children(d, p)
  BY DEF Exists, IsDir, Children
<1>2. \A p : Having(p)' = Having(p)
  BY <1>1 DEF Having
<1>3. \A p : Newest(p)' = Newest(p)
  BY <1>2 DEF Newest
<1>4. \A ds : Listing(ds)' = Listing(ds) /\ IsDirs(ds)' = IsDirs(ds)
  BY <1>1 DEF Listing, IsDirs
<1>5. Merged(call)' = Merged(call)
  BY <1>1, <1>3 DEF Merged, Attributes
<1>6. NotPromised' = NotPromised
  BY <1>3, SameModes DEF NotPromised
<1>7. QED BY <1>1, <1>2, <1>3, <1>4, <1>5, <1>6

LEMMA ReadServed ==
  ASSUME Shape, call \in Calls, call.op = "read", best \in Newest(call.path), NEW n,
         n = Cardinality(call.range[1] + 1
               .. Min({call.range[1] + call.range[2], disk[best][call.path].len}))
  PROVE  (IF IsDir(best, call.path) /\ program = "inf24_1" THEN Error("EISDIR")
                                                          ELSE Data(best, n, n))
           \in Merged(call)
  BY DEF Merged

LEMMA EmptyRead ==
  ASSUME NEW a \in {0, 1}, NEW b \in {1, 2}, NEW len \in Nat, a >= len
  PROVE  Cardinality(a + 1 .. Min({a + b, len})) = 0
<1>1. Min({a + b, len}) = len
  BY MinOfTwo
<1>2. a + 1 .. len = {}
  OBVIOUS
<1>3. QED BY <1>1, <1>2, FS_EmptySet

LEMMA FullRead ==
  ASSUME NEW a \in {0, 1}, NEW b \in {1, 2}, NEW len \in Nat, a < len
  PROVE  Cardinality(a + 1 .. Min({a + b, len})) = Min({b, len - a})
<1>1. Min({b, len - a}) = IF b <= len - a THEN b ELSE len - a
  BY MinOfTwo
<1>2. Min({a + b, len}) = IF a + b <= len THEN a + b ELSE len
  BY MinOfTwo
<1> DEFINE m == Min({b, len - a})
<1>3. Min({a + b, len}) = a + m /\ m \in Nat
  BY <1>1, <1>2
<1>4. Cardinality(a + 1 .. a + m) = m
  <2> HIDE DEF m
  <2>1. QED BY <1>3, IntervalSize
<1>5. QED BY <1>3, <1>4

\* A set of numbers has a least one: of the sets 0 .. x one is contained in all others.
LEMMA LeastElement ==
  ASSUME NEW T \in SUBSET Nat, T # {}
  PROVE  \E x \in T : \A y \in T : x <= y
<1> DEFINE U == {0 .. x : x \in T}
<1>1. U \subseteq FiniteSubsetsOf(Nat) /\ U # {}
  <2>1. ASSUME NEW x \in Nat PROVE IsFiniteSet(0 .. x) /\ 0 .. x \subseteq Nat
    BY FS_Interval
  <2>2. QED BY <2>1 DEF FiniteSubsetsOf
<1>2. PICK u \in U : \A v \in U : ~ (<<v, u>> \in StrictSubsetOrdering(Nat))
  BY <1>1, FS_StrictSubsetOrderingWellFounded, WFMin
<1>3. PICK x \in T : u = 0 .. x
  OBVIOUS
<1>4. ASSUME NEW y \in T, y < x PROVE FALSE
  <2>1. 0 .. y \in U /\ 0 .. y \subseteq 0 .. x /\ x \in 0 .. x /\ x \notin 0 .. y
    BY <1>4
  <2>2. 0 .. y \in SUBSET Nat /\ 0 .. x \in SUBSET Nat
    OBVIOUS
  <2>3. <<0 .. y, 0 .. x>> \in StrictSubsetOrdering(Nat)
    BY <2>1, <2>2 DEF StrictSubsetOrdering
  <2>4. QED BY <1>2, <1>3, <2>1, <2>3
<1>5. QED BY <1>4

\* Some directory has the newest root.
LEMMA RootIsSomewhere ==
  ASSUME Shape
  PROVE  Newest(Root) # {}
<1> DEFINE Age(d) == Now - disk[d][Root].time
           Ages == {Age(d) : d \in Dirs}
<1>1. \A d \in Dirs : /\ Exists(d, Root) /\ disk[d][Root].time \in Nat
                      /\ disk[d][Root].time <= Now
  BY DEF Shape, DiskOK, Places, Paths, Entries, IsDir, Exists
<1>2. Now \in Nat /\ 1 \in Dirs
  BY BoundsAssumption DEF Shape, DiskOK, Now, Dirs
<1>3. Ages \in SUBSET Nat /\ Ages # {}
  BY <1>1, <1>2
<1>4. PICK x \in Ages : \A y \in Ages : x <= y
  BY <1>3, LeastElement
<1>5. PICK d \in Dirs : x = Age(d)
  BY <1>4
<1>6. \A e \in Dirs : disk[d][Root].time >= disk[e][Root].time
  <2>1. \A e \in Dirs : Age(d) <= Age(e)
    BY <1>4, <1>5
  <2>2. QED BY <1>1, <1>2, <2>1
<1>7. d \in Newest(Root)
  BY <1>1, <1>6 DEF Newest, Having
<1>8. QED BY <1>7

LEMMA ServingOthers ==
  ASSUME Shape, Serving, Others
  PROVE  Serving'
<1>1. /\ \/ disturbed' = disturbed /\ pc = "idle"
         \/ disturbed' # {}
      /\ changes' # 0 /\ pc' = pc
  <2>1. /\ pc' = pc /\ changes' = changes + 1 /\ changes \in Nat
        /\ \E kind \in {"written", "removed", "created", "chmod"} :
             disturbed' = IF pc = "idle" THEN disturbed ELSE disturbed \cup {kind}
    BY ChangeKeeps DEF Shape, DiskOK, Recorded
  <2>2. changes' # 0
    BY <2>1
  <2>3. (disturbed' = disturbed /\ pc = "idle") \/ disturbed' # {}
    BY <2>1
  <2>4. QED BY <2>1, <2>2, <2>3
<1>2. QED BY <1>1 DEF Serving, TreeOK, LoopOK, ChoiceOK, ClearOK, ServesTheMerge

\* The directories still to be listed.
Left == {subdirs[n] : n \in 1 .. Len(subdirs)}

LEMMA ListingFacts ==
  /\ \A ds, d : Listing(ds \cup {d}) = Listing(ds) \cup Children(d, call.path)
  /\ \A ds, d : IsDirs(ds \cup {d})
                = IF IsDir(d, call.path) THEN IsDirs(ds) \cup {d} ELSE IsDirs(ds)
  /\ Listing({}) = {} /\ \A ds : Listing(ds) = {} \/ ds # {}
  BY DEF Listing, IsDirs

LEMMA ListAnswer ==
  ASSUME call.op = "readdir", program = "inf24_1" => IsDirs(Dirs) # {}
  PROVE  [what |-> "names", names |-> Listing(IsDirs(Dirs))] \in Merged(call)
<1>1. IsDirs(Dirs) = {d \in Dirs : IsDir(d, call.path)}
  BY DEF IsDirs
<1>2. QED BY <1>1 DEF Merged, Listing

LEMMA ServingProgram ==
  ASSUME Shape, EntryOK, Serving, Program
  PROVE  Serving'
<1>1. UNCHANGED <<program, disk, locked, changes, tree>>
  BY ProgramKeeps
<1>2. TreeOK'
  <2>1. \A p : Newest(p)' = Newest(p)
    BY <1>1 DEF Newest, Having, Exists
  <2>2. QED BY <1>1, <2>1 DEF Serving, TreeOK, Nowhere
<1>01. program' = "inf24_1" /\ changes' = 0 => \A d \in Dirs', p \in Paths : ~Closed(d, p)'
  BY <1>1, SameModes DEF Serving, ClearOK, Dirs
<1>02. \A d, p : Hidden(d, p)' = Hidden(d, p)
  BY <1>1, SameModes
<1>03. ASSUME pc' = "crashed" PROVE Serving'
  BY <1>2, <1>01, <1>03 DEF Serving, LoopOK, ChoiceOK, ClearOK, ServesTheMerge
<1>04. ASSUME program = "inf24_1", changes = 0, NEW d \in Dirs PROVE \A p : ~Hidden(d, p)
  BY <1>04 DEF Serving, ClearOK, Hidden
<1>3. CASE Begin
  <2>1. /\ pc' \in {"check", "cached", "exists"} /\ dir' = 1 /\ best' = Nowhere
        /\ subdirs' = <<>> /\ names' = {}
    BY <1>3 DEF Begin, loop, lookup, Shape, ControlOK
  <2>2. Up(1) = {}
    BY DEF Up, Dirs
  <2>3. Up(dir)' = {} /\ \A ds : ds = {} => IsDirs(ds)' = {} /\ Listing(ds)' = {}
    BY <2>1, <2>2 DEF IsDirs, Listing, Up, Dirs
  <2>4. {subdirs'[n] : n \in 1 .. Len(subdirs')} = {}
    BY <2>1
  <2>5. LoopOK'
    BY <2>1, <2>3, <2>4 DEF LoopOK, Nowhere, IsDirs, Listing
  <2>6. ClearOK'
    BY <1>01, <2>1, <2>3 DEF ClearOK
  <2>7. QED BY <1>2, <2>1, <2>5, <2>6 DEF Serving, ChoiceOK, ServesTheMerge
<1>4. CASE End
  BY <1>2, <1>01, <1>4 DEF End, Serving, LoopOK, ChoiceOK, ClearOK, ServesTheMerge
<1>5. ASSUME call \in Calls, UNCHANGED <<call, disturbed>>, pc' = "replied",
             disturbed = {} /\ ~NotPromised => reply' \in Merged(call)
      PROVE  Serving'
  <2>1. Merged(call)' = Merged(call) /\ NotPromised' = NotPromised
    BY <1>1, <1>5, SameDisk
  <2>2. QED BY <1>1, <1>2, <1>01, <1>5, <2>1
        DEF Serving, LoopOK, ChoiceOK, ClearOK, ServesTheMerge
<1>6. ASSUME call \in Calls, UNCHANGED <<call, disturbed>>,
             pc' \in {"stat", "regular", "size", "open"},
             disturbed = {} /\ (program = "inf24_1" => changes = 0) =>
               /\ \/ best' \in Newest(call.path)
                  \/ program = "main_c" /\ Newest(call.path) = {} /\ best' = Cwd
               /\ best' # Cwd => ~Hidden(best', call.path)
      PROVE  Serving'
  <2>1. Newest(call.path)' = Newest(call.path)
    BY <1>1, <1>6, SameDisk
  <2>2. ClearOK'
    BY <1>1, <1>01, <1>02, <1>6 DEF ClearOK, Cwd
  <2>3. QED BY <1>1, <1>2, <1>6, <2>1, <2>2 DEF Serving, LoopOK, ChoiceOK, ServesTheMerge, Cwd
<1>7. CASE get_last_changed_name
  <2>1. /\ pc = "cached" /\ program = "inf24_1" /\ call \in Calls /\ call.op \in {"read", "getattr"}
        /\ best' = tree[call.path] /\ UNCHANGED <<call, disturbed>>
    BY <1>7, CallFacts DEF get_last_changed_name, mount, Shape, ControlOK
  <2>2. call.path \in Paths
    BY <2>1, CallFacts
  <2>3. changes = 0 => IF Newest(call.path) = {} THEN tree[call.path] = Nowhere
                       ELSE tree[call.path] \in Newest(call.path)
    BY <2>1, <2>2 DEF Serving, TreeOK
  <2>4. CASE call.op = "read" /\ call.path = Root
    <3>1. pc' = "replied" /\ reply' = Error("EISDIR")
      BY <1>7, <2>4 DEF get_last_changed_name, Reply
    <3>2. Error("EISDIR") \in Merged(call)
      <4>1. PICK d \in Newest(Root) : TRUE
        BY RootIsSomewhere
      <4>2. IsDir(d, Root)
        BY <4>1 DEF Newest, Having, Shape, DiskOK, Places
      <4>3. QED BY <2>1, <2>4, <4>1, <4>2 DEF Merged
    <3>3. QED BY <1>5, <2>1, <3>1, <3>2
  <2>5. CASE ~(call.op = "read" /\ call.path = Root) /\ tree[call.path] = Nowhere
    <3>1. pc' = "replied" /\ reply' = Error("ENOENT")
      BY <1>7, <2>5 DEF get_last_changed_name, Reply
    <3>2. changes = 0 => Newest(call.path) = {}
      <4>1. \A d \in Newest(call.path) : d \in Dirs
        BY DEF Newest, Having
      <4>2. Nowhere \notin Dirs
        BY BoundsAssumption DEF Nowhere, Dirs
      <4>3. QED BY <2>3, <2>5, <4>1, <4>2
    <3>3. changes = 0 => Error("ENOENT") \in Merged(call)
      BY <2>1, <3>2 DEF Merged
    <3>4. ~NotPromised => changes = 0
      BY <2>1 DEF NotPromised, Shape, DiskOK
    <3>5. QED BY <1>5, <2>1, <3>1, <3>3, <3>4
  <2>6. CASE ~(call.op = "read" /\ call.path = Root) /\ tree[call.path] # Nowhere
    <3>1. pc' = "stat"
      BY <1>7, <2>6 DEF get_last_changed_name
    <3>2. \A d \in Newest(call.path) : d \in Dirs
      BY DEF Newest, Having
    <3>3. changes = 0 => best' \in Newest(call.path) /\ best' \in Dirs
      BY <2>1, <2>3, <2>6, <3>2
    <3>4. changes = 0 => ~Hidden(best', call.path)
      BY <1>04, <2>1, <3>3
    <3>5. QED BY <1>6, <2>1, <3>1, <3>3, <3>4
  <2>7. QED BY <2>4, <2>5, <2>6
<1>8. CASE LookForPath
  <2>1. /\ pc = "exists" /\ program = "main_c" /\ call \in Calls
        /\ UNCHANGED <<call, disturbed, last_time>> /\ dir \in 1 .. Nowhere
    BY <1>8 DEF LookForPath, mount, Shape, ControlOK, VarsOK
  <2>2. CASE dir = Nowhere
    <3>1. pc' \in {"stat", "regular"} /\ best' = IF best = Nowhere THEN Cwd ELSE best
      BY <1>8, <2>2 DEF LookForPath
    <3>2. Up(dir) = Dirs
      BY <2>2, BoundsAssumption DEF Up, Dirs, Nowhere
    <3>3. ASSUME disturbed = {}
          PROVE  best' \in Newest(call.path) \/ (Newest(call.path) = {} /\ best' = Cwd)
      <4>1. CASE best = Nowhere
        <5>1. \A d \in Dirs : ~Exists(d, call.path)
          BY <2>1, <3>2, <3>3, <4>1 DEF Serving, LoopOK
        <5>2. QED BY <3>1, <4>1, <5>1 DEF Newest, Having
      <4>2. CASE best # Nowhere
        <5>1. /\ best \in Dirs /\ Exists(best, call.path) /\ last_time = disk[best][call.path].time
              /\ \A d \in Dirs : Exists(d, call.path) => disk[d][call.path].time <= last_time
          BY <2>1, <3>2, <3>3, <4>2 DEF Serving, LoopOK
        <5>2. \A d \in Dirs : disk[d][call.path].time \in Nat
          BY <2>1, CallFacts DEF Shape, DiskOK, Entries, Places
        <5>3. best \in Newest(call.path)
          BY <5>1, <5>2 DEF Newest, Having
        <5>4. QED BY <3>1, <4>2, <5>3
      <4>3. QED BY <4>1, <4>2
    <3>4. disturbed = {} /\ best' # Cwd => ~Hidden(best', call.path)
      <4>1. ASSUME disturbed = {}, best # Nowhere PROVE ~Hidden(best, call.path)
        BY <2>1, <4>1 DEF Serving, LoopOK, ClearOK
      <4>2. QED BY <3>1, <4>1
    <3>5. QED BY <1>6, <2>1, <3>1, <3>3, <3>4
  <2>30. CASE dir # Nowhere /\ Hidden(dir, call.path)
    BY <1>03, <1>8, <2>30 DEF LookForPath, Crash
  <2>3. CASE dir # Nowhere /\ ~Hidden(dir, call.path)
    <3>1. /\ best' = best
          /\ \/ pc' = "time" /\ dir' = dir /\ Exists(dir, call.path)
             \/ pc' = "exists" /\ dir' = dir + 1 /\ ~Exists(dir, call.path)
      BY <1>8, <2>1, <2>3 DEF LookForPath
    <3>2. CASE dir' = dir
      <4>1. LoopOK'
        BY <1>1, <2>1, <3>1, <3>2, SameDisk DEF Serving, LoopOK, Up, Nowhere, Dirs
      <4>2. Up(dir)' = Up(dir)
        BY <3>2 DEF Up, Dirs
      <4>3. ClearOK'
        BY <1>1, <1>01, <1>02, <2>1, <2>3, <3>1, <3>2, <4>2 DEF Serving, ClearOK
      <4>4. QED BY <1>2, <3>1, <4>1, <4>3 DEF Serving, ChoiceOK, ServesTheMerge
    <3>3. CASE dir' = dir + 1 /\ ~Exists(dir, call.path)
      <4>1. \A d \in Up(dir + 1) : d \in Up(dir) \/ d = dir
        BY <2>1 DEF Up, Dirs, Nowhere
      <4>2. Up(dir) \subseteq Up(dir + 1)
        BY <2>1 DEF Up, Dirs, Nowhere
      <4>3. Up(dir)' = Up(dir + 1)
        BY <3>3 DEF Up, Dirs
      <4>4. pc' = "exists"
        BY <3>1, <3>3
      <4>5. LoopOK'
        BY <1>1, <2>1, <3>1, <3>3, <4>1, <4>2, <4>3, <4>4, SameDisk DEF Serving, LoopOK, Nowhere
      <4>6. ClearOK'
        BY <1>1, <1>01, <1>02, <2>1, <2>3, <4>1, <4>3, <4>4 DEF Serving, ClearOK
      <4>7. QED BY <1>2, <4>4, <4>5, <4>6 DEF Serving, ChoiceOK, ServesTheMerge
    <3>4. QED BY <3>1, <3>2, <3>3
  <2>4. QED BY <2>2, <2>30, <2>3
<1>9. CASE TakeNewer
  <2>1. /\ pc = "time" /\ program = "main_c" /\ call \in Calls /\ dir \in Dirs
        /\ UNCHANGED <<call, disturbed>>
    BY <1>9 DEF TakeNewer, mount, Shape, ControlOK
  <2>2. CASE disturbed # {}
    <3>1. pc' # "replied"
      BY <1>9 DEF TakeNewer, Crash
    <3>2. QED BY <1>2, <1>01, <2>1, <2>2, <3>1
          DEF Serving, LoopOK, ChoiceOK, ClearOK, ServesTheMerge
  <2>3. CASE disturbed = {}
    <3>1. Exists(dir, call.path) /\ ~Hidden(dir, call.path) /\ Visible(dir, call.path)
      BY <2>1, <2>3 DEF EntryOK, Serving, ClearOK, Visible
    <3>2. /\ pc' = "exists" /\ dir' = dir + 1
          /\ IF best = Nowhere \/ disk[dir][call.path].time > last_time
             THEN best' = dir /\ last_time' = disk[dir][call.path].time
             ELSE best' = best /\ last_time' = last_time
      BY <1>9, <3>1 DEF TakeNewer
    <3>3. /\ Up(dir)' = Up(dir + 1) /\ dir \in Up(dir + 1) /\ Up(dir) \subseteq Up(dir + 1)
          /\ \A d \in Up(dir + 1) : d \in Up(dir) \/ d = dir
          /\ dir # Nowhere
      BY <2>1, <3>2, BoundsAssumption DEF Up, Dirs, Nowhere
    <3>4. \A d \in Dirs : disk[d][call.path].time \in Nat
      BY <2>1, CallFacts DEF Shape, DiskOK, Entries, Places
    <3>5. IF best = Nowhere THEN \A d \in Up(dir) : ~Exists(d, call.path)
          ELSE /\ best \in Up(dir) /\ Exists(best, call.path)
               /\ last_time = disk[best][call.path].time
               /\ \A d \in Up(dir) : Exists(d, call.path) => disk[d][call.path].time <= last_time
      BY <2>1, <2>3 DEF Serving, LoopOK
    <3>6. \A d : d \in Up(dir) => d \in Dirs
      BY DEF Up
    <3>7. /\ best' # Nowhere /\ best' \in Up(dir + 1) /\ Exists(best', call.path)
          /\ last_time' = disk[best'][call.path].time
          /\ \A d \in Up(dir + 1) : Exists(d, call.path) => disk[d][call.path].time <= last_time'
      <4>1. CASE best = Nowhere
        BY <2>1, <3>1, <3>2, <3>3, <3>4, <3>5, <4>1
      <4>2. CASE best # Nowhere /\ disk[dir][call.path].time > last_time
        BY <2>1, <3>1, <3>2, <3>3, <3>4, <3>5, <3>6, <4>2
      <4>3. CASE best # Nowhere /\ ~(disk[dir][call.path].time > last_time)
        BY <2>1, <3>1, <3>2, <3>3, <3>4, <3>5, <3>6, <4>3
      <4>4. QED BY <4>1, <4>2, <4>3
    <3>8. \A d, p : Exists(d, p)' = Exists(d, p)
      BY <1>1 DEF Exists
    <3>9. Exists(best, call.path)' /\ Nowhere' = Nowhere
      BY <1>1, <2>1, <3>7 DEF Exists, Nowhere
    <3>10. LoopOK'
      BY <1>1, <2>1, <3>2, <3>3, <3>7, <3>8, <3>9 DEF LoopOK
    <3>11. \A d \in Up(dir) : ~Hidden(d, call.path)
      BY <2>1, <2>3 DEF Serving, ClearOK
    <3>12. ClearOK'
      BY <1>01, <1>02, <2>1, <3>1, <3>2, <3>3, <3>11 DEF ClearOK
    <3>13. QED BY <1>2, <3>2, <3>10, <3>12 DEF Serving, ChoiceOK, ServesTheMerge
  <2>4. QED BY <2>2, <2>3
<1>10. ASSUME pc \in {"stat", "regular", "size", "open"}, disturbed = {}
       PROVE  /\ call \in Calls /\ call.op \in {"getattr", "read"}
              /\ (program = "inf24_1" => changes = 0) =>
                   /\ \/ best \in Newest(call.path)
                      \/ program = "main_c" /\ Newest(call.path) = {} /\ best = Cwd
                   /\ best # Cwd => ~Hidden(best, call.path)
              /\ ~NotPromised => best \in Newest(call.path) /\ Visible(best, call.path)
  <2>1. call \in Calls /\ call.op \in {"getattr", "read"}
    BY <1>10, CallFacts DEF Shape, ControlOK
  <2>2. (program = "inf24_1" => changes = 0) =>
          /\ \/ best \in Newest(call.path)
             \/ program = "main_c" /\ Newest(call.path) = {} /\ best = Cwd
          /\ best # Cwd => ~Hidden(best, call.path)
    BY <1>10, <2>1 DEF Serving, ChoiceOK, ClearOK
  <2>3. ASSUME ~NotPromised PROVE best \in Newest(call.path) /\ Visible(best, call.path)
    <3>1. program = "inf24_1" => changes = 0
      BY <2>1, <2>3 DEF NotPromised, Shape, DiskOK
    <3>2. best \in Newest(call.path)
      BY <2>1, <2>2, <2>3, <3>1 DEF NotPromised
    <3>3. best \in Dirs /\ Exists(best, call.path) /\ best # Cwd
      BY <3>2 DEF Newest, Having, Dirs, Cwd
    <3>4. QED BY <2>2, <3>1, <3>2, <3>3 DEF Visible
  <2>4. QED BY <2>1, <2>2, <2>3
<1>11. CASE GetAttr
  <2>1. /\ pc = "stat" /\ call.op = "getattr" /\ pc' = "replied" /\ call \in Calls
        /\ UNCHANGED <<call, disturbed>>
        /\ Visible(best, call.path) => reply' = Attributes(best, call.path)
    BY <1>11 DEF GetAttr, Reply, mount, Shape, ControlOK
  <2>2. ASSUME disturbed = {}, ~NotPromised
        PROVE  reply' \in Merged(call)
    <3>1. best \in Newest(call.path) /\ reply' = Attributes(best, call.path)
      BY <1>10, <2>1, <2>2
    <3>2. QED BY <2>1, <3>1 DEF Merged
  <2>3. QED BY <1>5, <2>1, <2>2
<1>12. ASSUME pc \in {"stat", "size"}, call.op = "read", UNCHANGED <<call, disturbed, best>>,
              Clamp(disk[best][call.path].len),
              program = "main_c" \/ ~IsDir(best, call.path)
       PROVE  Serving'
  <2> DEFINE len == disk[best][call.path].len
  <2>1. /\ call \in Calls /\ best \in Places /\ len \in Nat
        /\ call.range[1] \in {0, 1} /\ call.range[2] \in {1, 2}
    BY <1>12, CallFacts DEF Shape, ControlOK, DiskOK, Entries
  <2>2. CASE call.range[1] >= len
    <3>1. pc' = "replied" /\ reply' = Data(best, 0, 0)
      BY <1>12, <2>2 DEF Clamp, Reply
    <3>2. Cardinality(call.range[1] + 1 .. Min({call.range[1] + call.range[2], len})) = 0
      <4> HIDE DEF len
      <4>1. QED BY <2>1, <2>2, EmptyRead
    <3>3. disturbed = {} /\ ~NotPromised => reply' \in Merged(call)
      BY <1>10, <1>12, <2>1, <3>1, <3>2, ReadServed
    <3>4. QED BY <1>5, <1>12, <2>1, <3>1, <3>3
  <2>3. CASE ~(call.range[1] >= len)
    <3>1. pc' = "open"
      BY <1>12, <2>3 DEF Clamp
    <3>2. disturbed = {} /\ (program = "inf24_1" => changes = 0) =>
            /\ \/ best' \in Newest(call.path)
               \/ program = "main_c" /\ Newest(call.path) = {} /\ best' = Cwd
            /\ best' # Cwd => ~Hidden(best', call.path)
      BY <1>10, <1>12
    <3>3. QED BY <1>6, <1>12, <2>1, <3>1, <3>2
  <2>4. QED BY <2>2, <2>3
<1>13. CASE ReadStat
  <2>1. /\ pc = "stat" /\ call.op = "read" /\ UNCHANGED <<call, disturbed, best>>
        /\ call \in Calls /\ program = "inf24_1"
    BY <1>13 DEF ReadStat, mount, lookup, Shape, ControlOK, VarsOK
  <2>2. CASE ~Hidden(best, call.path) /\ IsDir(best, call.path)
    <3>1. pc' = "replied" /\ reply' = Error("EISDIR")
      BY <1>13, <2>2 DEF ReadStat, Reply
    <3>2. disturbed = {} /\ ~NotPromised => reply' \in Merged(call)
      BY <1>10, <2>1, <2>2, <3>1, ReadServed
    <3>3. QED BY <1>5, <2>1, <3>1, <3>2
  <2>3. CASE ~Hidden(best, call.path) /\ ~IsDir(best, call.path)
    BY <1>12, <1>13, <2>1, <2>3 DEF ReadStat
  <2>4. CASE Hidden(best, call.path)
    <3>1. call.range[1] >= 0
      BY <2>1, CallFacts
    <3>2. pc' = "replied"
      BY <1>13, <2>4, <3>1 DEF ReadStat, Clamp, Reply
    <3>3. ~(disturbed = {} /\ ~NotPromised)
      BY <1>10, <2>1, <2>4 DEF Visible
    <3>4. QED BY <1>5, <2>1, <3>2, <3>3
  <2>5. QED BY <2>2, <2>3, <2>4
<1>14. CASE IsRegular
  <2>1. /\ pc = "regular" /\ program = "main_c" /\ call.op = "read" /\ call \in Calls
        /\ UNCHANGED <<call, disturbed, best>> /\ best \in Places
    BY <1>14 DEF IsRegular, mount, loop, lookup, Shape, ControlOK
  <2>2. CASE ~Hidden(best, call.path) /\ IsFile(best, call.path)
    <3>1. pc' = "size"
      BY <1>14, <2>2 DEF IsRegular
    <3>2. QED BY <1>6, <1>10, <2>1, <3>1
  <2>20. CASE Hidden(best, call.path)
    BY <1>03, <1>14, <2>20 DEF IsRegular, Crash
  <2>3. CASE ~Hidden(best, call.path) /\ ~IsFile(best, call.path)
    <3>1. pc' = "replied" /\ reply' = Data(best, 0, 0)
      BY <1>14, <2>3 DEF IsRegular, Reply
    <3>2. disk[best][call.path].len = 0 /\ call.range[1] \in {0, 1} /\ call.range[2] \in {1, 2}
      BY <2>1, <2>3, CallFacts DEF IsFile, Shape, DiskOK
    <3>3. Cardinality(call.range[1] + 1
            .. Min({call.range[1] + call.range[2], disk[best][call.path].len})) = 0
      BY <3>2, EmptyRead
    <3>4. disturbed = {} /\ ~NotPromised => reply' \in Merged(call)
      BY <1>10, <2>1, <3>1, <3>3, ReadServed
    <3>5. QED BY <1>5, <2>1, <3>1, <3>4
  <2>4. QED BY <2>2, <2>20, <2>3
<1>15. CASE FileSize
  <2>1. /\ pc = "size" /\ program = "main_c" /\ call.op = "read"
        /\ UNCHANGED <<call, disturbed, best>>
    BY <1>15 DEF FileSize, mount, lookup, Shape, ControlOK
  <2>2. CASE IsFile(best, call.path) /\ ~Hidden(best, call.path)
    BY <1>12, <1>15, <2>1, <2>2 DEF FileSize
  <2>3. CASE ~(IsFile(best, call.path) /\ ~Hidden(best, call.path))
    BY <1>03, <1>15, <2>3 DEF FileSize, Crash
  <2>4. QED BY <2>2, <2>3
<1>16. CASE ReadFile
  <2> DEFINE len == disk[best][call.path].len
             got == Cardinality(call.range[1] + 1 .. Min({call.range[1] + size, len}))
             n == Cardinality(call.range[1] + 1 .. Min({call.range[1] + call.range[2], len}))
  <2>1. /\ pc = "open" /\ call.op = "read" /\ call \in Calls /\ pc' = "replied"
        /\ UNCHANGED <<call, disturbed, best>> /\ best \in Places
        /\ ~Unreadable(best, call.path) => reply' = Data(best, size, got)
    BY <1>16 DEF ReadFile, Reply, mount, loop, lookup, Shape, ControlOK
  <2>2. ASSUME disturbed = {}, ~NotPromised
        PROVE  reply' \in Merged(call)
    <3>0. best \in Newest(call.path) /\ ~Unreadable(best, call.path)
      BY <1>10, <2>1, <2>2 DEF NotPromised
    <3>1. /\ call.range[1] < len /\ size = Min({call.range[2], len - call.range[1]})
          /\ size = got
      <4>1. EntryOK'
        BY <1>16, EntryStep DEF Next, Program
      <4>2. reply' = Data(best, size, got)
        BY <2>1, <3>0
      <4>3. ~Unreadable(reply.from, call.path)'
        BY <1>1, <2>1, <3>0, <4>2, SameModes DEF Data
      <4>4. reply'.what = "data" /\ reply'.claimed = size /\ reply'.got = got
        BY <4>2 DEF Data
      <4> HIDE DEF len, got
      <4>5. size = got
        BY <2>1, <2>2, <4>1, <4>3, <4>4 DEF EntryOK
      <4>6. QED BY <2>1, <2>2, <4>5 DEF EntryOK, len
    <3>2. call.range[1] \in {0, 1} /\ call.range[2] \in {1, 2} /\ len \in Nat
      BY <2>1, CallFacts DEF Shape, DiskOK, Entries
    <3>3. n = size
      <4> HIDE DEF len
      <4>1. QED BY <3>1, <3>2, FullRead
    <3>4. reply' = Data(best, n, n)
      BY <2>1, <3>0, <3>1, <3>3
    <3>5. ~IsDir(best, call.path)
      <4>1. len # 0 /\ call.path \in Paths
        BY <2>1, <3>1, <3>2, CallFacts
      <4>2. QED BY <2>1, <4>1 DEF IsDir, Shape, DiskOK
    <3>6. QED BY <2>1, <3>0, <3>4, <3>5, ReadServed
  <2>3. QED BY <1>5, <2>1, <2>2
<1>17. ASSUME pc \in {"check", "list"}
       PROVE  /\ call \in Calls /\ call.op = "readdir" /\ subdirs \in Seq(Dirs)
              /\ disturbed = {} => names \cup Listing(Left) = Listing(IsDirs(Up(dir)))
  BY <1>17 DEF Serving, LoopOK, Left, Shape, ControlOK, VarsOK
<1>18. ASSUME pc' \in {"check", "list"}, UNCHANGED <<call, disturbed>>,
              disturbed = {} => names' \cup Listing(Left') = Listing(IsDirs(Up(dir'))),
              disturbed = {} /\ program = "inf24_1" =>
                IF pc' = "check" THEN subdirs' = <<>> => IsDirs(Up(dir')) = {}
                                 ELSE IsDirs(Dirs) # {}
       PROVE  Serving'
  <2>1. \A d : /\ Children(d, call.path)' = Children(d, call.path)
               /\ IsDir(d, call.path)' = IsDir(d, call.path)
    BY <1>1, <1>18 DEF Children, Exists, IsDir
  <2>2. /\ (Listing(Left))' = Listing(Left')
        /\ IsDirs(Up(dir))' = IsDirs(Up(dir')) /\ IsDirs(Dirs)' = IsDirs(Dirs)
    BY <2>1 DEF Listing, IsDirs, Up, Left, Dirs
  <2>3. (Listing(IsDirs(Up(dir))))' = Listing(IsDirs(Up(dir')))
    BY <2>1 DEF Listing, IsDirs, Up, Dirs
  <2>4. disturbed' = {} =>
          /\ names' \cup (Listing(Left))' = (Listing(IsDirs(Up(dir))))'
          /\ program' = "inf24_1" =>
               IF pc' = "check" THEN subdirs' = <<>> => IsDirs(Up(dir))' = {}
                                ELSE IsDirs(Dirs)' # {}
    BY <1>1, <1>18, <2>2, <2>3
  <2>5. LoopOK'
    BY <1>18, <2>4 DEF LoopOK, Left
  <2>6. QED BY <1>2, <1>01, <1>18, <2>5 DEF Serving, ChoiceOK, ClearOK, ServesTheMerge
<1>190. CASE CheckDir /\ Hidden(dir, call.path)
  BY <1>03, <1>190 DEF CheckDir, Crash
<1>19. CASE CheckDir /\ ~Hidden(dir, call.path)
  <2>1. /\ pc = "check" /\ dir \in Dirs /\ dir' = dir + 1 /\ names' = names
        /\ UNCHANGED <<call, disturbed>>
        /\ IF IsDir(dir, call.path)
           THEN /\ subdirs' = Append(subdirs, dir)
                /\ pc' = IF program = "main_c" THEN "list" ELSE pc
           ELSE pc' = pc /\ subdirs' = subdirs
    BY <1>19, BoundsAssumption DEF CheckDir, mount, Shape, VarsOK, Dirs, Nowhere
  <2>2. Up(dir + 1) = Up(dir) \cup {dir}
    BY <2>1 DEF Up, Dirs
  <2>3. program = "inf24_1" => pc' = "check"
    BY <2>1
  <2>4. CASE IsDir(dir, call.path)
    <3>1. subdirs \in Seq(Dirs) /\ subdirs' = Append(subdirs, dir)
      BY <1>17, <2>1, <2>4
    <3>2. /\ Len(subdirs') = Len(subdirs) + 1
          /\ \A n \in 1 .. Len(subdirs) : subdirs'[n] = subdirs[n]
          /\ subdirs'[Len(subdirs) + 1] = dir
      BY <2>1, <3>1, AppendProperties
    <3>3. Left' = Left \cup {dir}
      <4>1. Len(subdirs) \in Nat
        BY <3>1
      <4>2. \A n \in 1 .. Len(subdirs') : n \in 1 .. Len(subdirs) \/ n = Len(subdirs) + 1
        BY <3>2, <4>1
      <4>3. /\ Len(subdirs) + 1 \in 1 .. Len(subdirs')
            /\ \A n \in 1 .. Len(subdirs) : n \in 1 .. Len(subdirs')
        BY <3>2, <4>1
      <4>4. QED BY <3>2, <4>2, <4>3 DEF Left
    <3>4. subdirs' # <<>>
      BY <3>1, <2>1, AppendProperties
    <3>5. Listing(Left') = Listing(Left) \cup Children(dir, call.path)
      BY <3>3, ListingFacts
    <3>6. Listing(IsDirs(Up(dir'))) = Listing(IsDirs(Up(dir))) \cup Children(dir, call.path)
      <4>1. IsDirs(Up(dir')) = IsDirs(Up(dir)) \cup {dir}
        BY <2>1, <2>2, <2>4, ListingFacts
      <4>2. QED BY <4>1, ListingFacts
    <3>7. disturbed = {} => names' \cup Listing(Left') = Listing(IsDirs(Up(dir')))
      BY <1>17, <2>1, <3>5, <3>6
    <3>8. QED BY <1>18, <2>1, <2>3, <2>4, <3>4, <3>7
  <2>5. CASE ~IsDir(dir, call.path)
    <3>1. pc' = "check" /\ subdirs' = subdirs /\ Left' = Left
      BY <2>1, <2>5 DEF Left
    <3>2. IsDirs(Up(dir')) = IsDirs(Up(dir))
      BY <2>1, <2>2, <2>5, ListingFacts
    <3>3. disturbed = {} /\ program = "inf24_1" /\ subdirs = <<>> => IsDirs(Up(dir)) = {}
      BY <2>1 DEF Serving, LoopOK
    <3>4. QED BY <1>17, <1>18, <2>1, <3>1, <3>2, <3>3
  <2>6. QED BY <2>4, <2>5
<1>20. dir = Nowhere => Up(dir) = Dirs
  BY BoundsAssumption DEF Up, Dirs, Nowhere
<1>21. CASE EndOfDirs
  <2>1. /\ pc = "check" /\ dir = Nowhere /\ UNCHANGED <<call, disturbed, names, subdirs, dir>>
        /\ program \in {"inf24_1", "main_c"} /\ (program = "main_c" => subdirs = <<>>)
    BY <1>21 DEF EndOfDirs, mount, loop, lookup, Shape, VarsOK, ControlOK
  <2>2. disturbed = {} /\ program = "inf24_1" /\ subdirs = <<>> => IsDirs(Dirs) = {}
    BY <1>20, <2>1 DEF Serving, LoopOK
  <2>3. CASE program = "main_c"
    <3>1. pc' = "replied" /\ reply' = [what |-> "names", names |-> names]
      BY <1>21, <2>3 DEF EndOfDirs, Reply
    <3>2. Left = {}
      BY <2>1, <2>3 DEF Left
    <3>3. disturbed = {} => names = Listing(IsDirs(Dirs))
      BY <1>17, <1>20, <2>1, <3>2, ListingFacts
    <3>4. QED BY <1>5, <1>17, <2>1, <2>3, <3>1, <3>3, ListAnswer
  <2>4. CASE program = "inf24_1" /\ subdirs = <<>>
    <3>1. pc' = "replied" /\ reply' = Error("ENOENT")
      BY <1>21, <2>4 DEF EndOfDirs, Reply
    <3>2. disturbed = {} => reply' \in Merged(call)
      <4>1. IsDirs(Dirs) = {d \in Dirs : IsDir(d, call.path)}
        BY DEF IsDirs
      <4>2. QED BY <1>17, <2>1, <2>2, <2>4, <3>1, <4>1 DEF Merged
    <3>3. QED BY <1>5, <1>17, <2>1, <3>1, <3>2
  <2>5. CASE program = "inf24_1" /\ subdirs # <<>>
    <3>1. pc' = "list" /\ Left' = Left
      BY <1>21, <2>1, <2>5 DEF EndOfDirs, Left
    <3>2. disturbed = {} => IsDirs(Dirs) # {}
      <4>1. subdirs \in Seq(Dirs) /\ 1 \in 1 .. Len(subdirs)
        BY <1>17, <2>1, <2>5, EmptySeq
      <4>2. disturbed = {} => IsDir(subdirs[1], call.path)
        BY <2>1, <4>1 DEF EntryOK
      <4>3. QED BY <4>1, <4>2 DEF IsDirs
    <3>3. QED BY <1>17, <1>18, <2>1, <3>1, <3>2
  <2>6. QED BY <2>1, <2>3, <2>4, <2>5
<1>22. CASE ListDir
  <2>1. /\ pc = "list" /\ subdirs # <<>> /\ UNCHANGED <<call, disturbed, dir>>
        /\ subdirs \in Seq(Dirs)
    BY <1>22 DEF ListDir, mount, lookup, Shape, VarsOK
  <2>2. CASE IsDir(Head(subdirs), call.path) /\ ~Unreadable(Head(subdirs), call.path)
    <3>1. /\ pc' \in {"list", "check"} /\ (program = "inf24_1" => pc' = "list")
          /\ subdirs' = Tail(subdirs)
          /\ names' = names \cup Children(Head(subdirs), call.path)
      BY <1>22, <2>1, <2>2 DEF ListDir
    <3>2. Left = Left' \cup {Head(subdirs)}
      <4>1. /\ Head(subdirs) = subdirs[1] /\ Len(subdirs') = Len(subdirs) - 1
            /\ Len(subdirs) \in Nat \ {0}
            /\ \A n \in 1 .. Len(subdirs') : subdirs'[n] = subdirs[n + 1]
        BY <2>1, <3>1, EmptySeq
      <4>2. \A n \in 1 .. Len(subdirs) : n = 1 \/ (n - 1 \in 1 .. Len(subdirs') /\ n = (n - 1) + 1)
        BY <4>1
      <4>3. \A n \in 1 .. Len(subdirs') : n + 1 \in 1 .. Len(subdirs)
        BY <4>1
      <4>4. Left \subseteq Left' \cup {Head(subdirs)}
        <5>1. ASSUME NEW n \in 1 .. Len(subdirs) PROVE subdirs[n] \in Left' \cup {Head(subdirs)}
          <6>1. CASE n = 1
            BY <4>1, <6>1
          <6>2. CASE n # 1
            <7>1. n - 1 \in 1 .. Len(subdirs') /\ subdirs'[n - 1] = subdirs[n]
              BY <4>1, <4>2, <6>2
            <7>2. QED BY <7>1 DEF Left
          <6>3. QED BY <6>1, <6>2
        <5>2. QED BY <5>1 DEF Left
      <4>5. Left' \cup {Head(subdirs)} \subseteq Left
        BY <4>1, <4>3 DEF Left
      <4>6. QED BY <4>4, <4>5
    <3>3. Listing(Left) = Listing(Left') \cup Children(Head(subdirs), call.path)
      BY <3>2, ListingFacts
    <3>4. disturbed = {} => names' \cup Listing(Left') = Listing(IsDirs(Up(dir')))
      BY <1>17, <2>1, <3>1, <3>3
    <3>5. disturbed = {} /\ program = "inf24_1" => IsDirs(Dirs) # {}
      BY <2>1 DEF Serving, LoopOK
    <3>6. QED BY <1>18, <2>1, <3>1, <3>4, <3>5
  <2>3. CASE ~(IsDir(Head(subdirs), call.path) /\ ~Unreadable(Head(subdirs), call.path))
    BY <1>03, <1>22, <2>3 DEF ListDir, Crash
  <2>4. QED BY <2>2, <2>3
<1>23. CASE EndOfList
  <2>1. /\ pc = "list" /\ subdirs = <<>> /\ UNCHANGED <<call, disturbed>>
        /\ pc' = "replied" /\ reply' = [what |-> "names", names |-> names]
        /\ program \in {"inf24_1", "main_c"} /\ Left = {}
    BY <1>23 DEF EndOfList, Reply, mount, Shape, VarsOK, Left
  <2>2. dir = Nowhere /\ program = "inf24_1"
    BY <2>1 DEF Shape, ControlOK
  <2>3. disturbed = {} => names = Listing(IsDirs(Dirs)) /\ IsDirs(Dirs) # {}
    <3>1. disturbed = {} => IsDirs(Dirs) # {}
      BY <2>1, <2>2 DEF Serving, LoopOK
    <3>2. QED BY <1>17, <1>20, <2>1, <2>2, <3>1, ListingFacts
  <2>4. QED BY <1>5, <1>17, <2>1, <2>3, ListAnswer
<1>24. QED
  BY <1>3, <1>4, <1>7, <1>8, <1>9, <1>11, <1>13, <1>14, <1>15, <1>16, <1>190, <1>19, <1>21,
     <1>22, <1>23 DEF Program

LEMMA ServingInit == Init => Serving
<1> SUFFICES ASSUME Init PROVE Serving
  OBVIOUS
<1>1. TreeOK
  BY DEF Init, TreeOK, preprocess
<1>2. QED BY <1>1 DEF Init, Serving, LoopOK, ChoiceOK, ClearOK, ServesTheMerge

LEMMA ServingStep ==
  ASSUME Shape, EntryOK, Serving, [Next]_vars
  PROVE  Serving'
<1>1. CASE UNCHANGED vars
  <2>1. UNCHANGED <<program, disk, locked, changes, tree, pc, call, dir, best, last_time,
                    subdirs, names, reply, disturbed>>
    BY <1>1 DEF vars, mount, loop, lookup
  <2>2. /\ \A p : Newest(p)' = Newest(p)
        /\ Merged(call)' = Merged(call) /\ NotPromised' = NotPromised
        /\ \A d, p : /\ Exists(d, p)' = Exists(d, p) /\ IsDir(d, p)' = IsDir(d, p)
                     /\ Children(d, p)' = Children(d, p)
                     /\ Closed(d, p)' = Closed(d, p) /\ Hidden(d, p)' = Hidden(d, p)
    BY <2>1, SameDisk, SameModes
  <2>3. TreeOK' /\ ChoiceOK' /\ ClearOK' /\ ServesTheMerge'
    <3>1. Up(dir)' = Up(dir) /\ Dirs' = Dirs /\ Nowhere' = Nowhere
      BY <2>1 DEF Up, Dirs, Nowhere
    <3>2. TreeOK' /\ ChoiceOK' /\ ServesTheMerge'
      BY <2>1, <2>2, <3>1 DEF Serving, TreeOK, ChoiceOK, ServesTheMerge
    <3>3. ClearOK'
      BY <2>1, <2>2, <3>1 DEF Serving, ClearOK
    <3>4. QED BY <3>2, <3>3
  <2>4. /\ IsDirs(Up(dir))' = IsDirs(Up(dir)) /\ IsDirs(Dirs)' = IsDirs(Dirs)
        /\ (Listing(Left))' = Listing(Left)
        /\ (Listing(IsDirs(Up(dir))))' = Listing(IsDirs(Up(dir)))
    BY <2>1, <2>2 DEF Listing, IsDirs, Up, Dirs, Left
  <2>5. disturbed' = {} /\ pc' \in {"check", "list"} =>
          /\ names' \cup (Listing(Left))' = (Listing(IsDirs(Up(dir))))'
          /\ program' = "inf24_1" =>
               IF pc' = "check" THEN subdirs' = <<>> => IsDirs(Up(dir))' = {}
                                ELSE IsDirs(Dirs)' # {}
    BY <2>1, <2>4 DEF Serving, LoopOK, Left
  <2>6. LoopOK'
    BY <2>1, <2>2, <2>5 DEF Serving, LoopOK, Left, Up, Dirs, Nowhere
  <2>7. QED BY <2>3, <2>6 DEF Serving
<1>2. QED BY <1>1, ServingOthers, ServingProgram DEF Next, Crashed

\* A call that nobody disturbs is answered from the newest file of its path, if
\* that may be read, and a directory lists the names of all: whatever the
\* directories hold, however many there are, and with the times in any order.
THEOREM AnswersAreMerged == Spec => []ServesTheMerge
<1> DEFINE All == Shape /\ EntryOK /\ Serving
<1>1. Init => All
  BY ShapeInit, ServingInit DEF Init, EntryOK, NoReply
<1>2. All /\ [Next]_vars => All'
  BY ShapeStep, EntryStep, ServingStep
<1>3. All => ServesTheMerge
  BY DEF Serving
<1> HIDE DEF All
<1>4. QED BY <1>1, <1>2, <1>3, PTL DEF Spec
=============================================================================
