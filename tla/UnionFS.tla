-------------------------------- MODULE UnionFS --------------------------------
(***************************************************************************)
(* inf24-1.cpp and fuse_c_example/main.c: a read-only FUSE file system     *)
(* that shows several directories as one, the newest file of every name.   *)
(* The first program reads the directories once, before it mounts; the     *)
(* second looks a path up in every call.  Others change the directories,   *)
(* and who may use them, between the steps of a call.  An exception        *)
(* (std::filesystem finds that something has just disappeared or may not   *)
(* be looked at) leaves the callback and ends the program.  Calls share no *)
(* state that changes: one at a time is enough.                            *)
(***************************************************************************)
EXTENDS Naturals, Sequences, SequencesExt, FiniteSetsExt

CONSTANTS
  DirCount,      \* number of directories in --src
  MaxChanges,    \* bound: changes by others
  MaxTime,       \* bound: modification times before the mount
  MaxLocked      \* bound: entries locked at the mount

ASSUME BoundsAssumption ==
  /\ DirCount \in Nat \ {0} /\ MaxChanges \in Nat /\ MaxTime \in Nat \ {0}
  /\ MaxLocked \in Nat

Dirs == 1 .. DirCount
Nowhere == DirCount + 1        \* the end of the list of directories
Cwd == 0                       \* the working directory of the program
Root == <<>>
Paths == {Root, <<"a">>, <<"a", "b">>}
Ranges == {<<0, 1>>, <<0, 2>>, <<1, 2>>}   \* offset and size of a read

VARIABLES
  program,   \* which of the two runs
  disk,      \* what is in the directories, and in the working directory
  locked,    \* entries whose mode gives the program nothing: it can neither read
             \* the file, nor list the directory or reach anything in it
  changes,   \* number of changes by others
  tree,      \* file_tree of inf24-1.cpp: where a path is found in it
  pc,        \* where the callback is
  call,      \* the callback and its arguments
  dir,       \* the directory its loop has reached
  best,      \* the directory chosen so far
  last_time,
  subdirs,   \* readdir: the directories still to be listed
  names,     \* readdir: the names filled in
  size,      \* read: the number of bytes it will return
  reply,
  disturbed  \* history: what others did during the call

lookup == <<dir, best, last_time>>
loop == <<lookup, subdirs, names, size>>
mount == <<program, disk, locked, changes, tree, disturbed>>
vars == <<mount, pc, call, loop, reply>>

-----------------------------------------------------------------------------
Missing == [kind |-> "missing", time |-> 0, len |-> 0]
Directory(t) == [kind |-> "dir", time |-> t, len |-> 0]
File(t, n) == [kind |-> "file", time |-> t, len |-> n]

Exists(d, p) == disk[d][p].kind # "missing"
IsDir(d, p) == disk[d][p].kind = "dir"
IsFile(d, p) == disk[d][p].kind = "file"

Lockable == {e \in (Dirs \cup {Cwd}) \X Paths : Exists(e[1], e[2])}

\* A path below a locked directory cannot even be looked at (EACCES).
Closed(d, p) == IsDir(d, p) /\ <<d, p>> \in locked
Hidden(d, p) == \E q \in Paths : IsStrictPrefix(q, p) /\ Closed(d, q)
Visible(d, p) == Exists(d, p) /\ ~Hidden(d, p)
Unreadable(d, p) == Hidden(d, p) \/ <<d, p>> \in locked

Children(d, p) ==
  {Last(q) : q \in {r \in Paths \ {Root} : Front(r) = p /\ Exists(d, r)}}

\* A directory where "a" is missing, a file, or a directory with or without a file.
Layout(a, b) ==
  [p \in Paths |-> IF p = Root THEN Directory(1) ELSE IF Len(p) = 1 THEN a ELSE b]
Layouts ==
  LET times == 1 .. MaxTime
  IN  {Layout(a, Missing) : a \in {Missing} \cup {File(t, n) : t \in times, n \in {1, 2}}}
      \cup {Layout(Directory(t), b) :
              t \in times, b \in {Missing} \cup {File(u, 2) : u \in times}}

\* The directories that have a path, and those where it is newest.
Having(p) == {d \in Dirs : Exists(d, p)}
Newest(p) == {d \in Having(p) : \A e \in Having(p) : disk[d][p].time >= disk[e][p].time}

\* preprocess sorts by path and, with the newest first, by time: the first entry
\* of a path, where get_last_changed_name stops.  Any of equally new ones.
preprocess ==
  /\ tree \in [Paths -> Dirs \cup {Nowhere}]
  /\ \A p \in Paths : IF Newest(p) = {} THEN tree[p] = Nowhere ELSE tree[p] \in Newest(p)

NoCall == [op |-> "none", path |-> Root, range |-> <<0, 1>>]
NoReply == [what |-> "none"]

\* preprocess lists every directory, and throws before the mount if one is closed.
Init ==
  /\ program \in {"inf24_1", "main_c"}
  /\ \E here \in [Dirs -> Layouts], cwd \in {Missing, File(1, 1)} :
       disk = [d \in Dirs \cup {Cwd} |-> IF d = Cwd THEN Layout(cwd, Missing) ELSE here[d]]
  /\ locked \in SUBSET Lockable
  /\ Cardinality(locked) <= MaxLocked
  /\ program = "inf24_1" => \A d \in Dirs, p \in Paths : ~Closed(d, p)
  /\ changes = 0 /\ disturbed = {}
  /\ IF program = "inf24_1" THEN preprocess ELSE tree = [p \in Paths |-> Nowhere]
  /\ pc = "idle" /\ call = NoCall /\ reply = NoReply
  /\ dir = 1 /\ best = Nowhere /\ last_time = 0
  /\ subdirs = <<>> /\ names = {} /\ size = 0

-----------------------------------------------------------------------------
Calls ==
  [op : {"getattr", "readdir"}, path : Paths, range : {<<0, 1>>}]
  \cup [op : {"read"}, path : Paths, range : Ranges]

Begin ==
  /\ pc = "idle"
  /\ call' \in Calls
  /\ pc' = IF call'.op = "readdir" THEN "check"
           ELSE IF program = "inf24_1" THEN "cached" ELSE "exists"
  /\ UNCHANGED <<mount, loop, reply>>

Reply(r) == reply' = r /\ pc' = "replied"
Error(code) == [what |-> code]
Crash == pc' = "crashed" /\ UNCHANGED reply

\* The caller has its reply.
End ==
  /\ pc = "replied"
  /\ pc' = "idle" /\ call' = NoCall /\ reply' = NoReply
  /\ dir' = 1 /\ best' = Nowhere /\ last_time' = 0
  /\ subdirs' = <<>> /\ names' = {} /\ size' = 0 /\ disturbed' = {}
  /\ UNCHANGED <<program, disk, locked, changes, tree>>

\* inf24-1.cpp: get_last_changed_name.
get_last_changed_name ==
  /\ pc = "cached"
  /\ IF call.op = "read" /\ call.path = Root THEN Reply(Error("EISDIR"))
     ELSE IF tree[call.path] = Nowhere THEN Reply(Error("ENOENT"))
     ELSE pc' = "stat" /\ UNCHANGED reply
  /\ best' = tree[call.path]
  /\ UNCHANGED <<mount, call, dir, last_time, subdirs, names, size>>

\* Mutant: like build/main.cpp:50, "exists (..) && .. > last_time || !is_exist".
ExistsOrFirst ==
  /\ pc = "exists"
  /\ IF dir = Nowhere
     THEN /\ pc' = IF call.op = "read" THEN "regular" ELSE "stat"
          /\ best' = IF best = Nowhere THEN Cwd ELSE best
          /\ UNCHANGED <<dir, reply>>
     ELSE /\ IF Hidden(dir, call.path) THEN Crash /\ UNCHANGED dir
             ELSE /\ UNCHANGED reply
                  /\ IF Exists(dir, call.path) \/ best = Nowhere
                     THEN pc' = "time" /\ UNCHANGED dir
                     ELSE dir' = dir + 1 /\ UNCHANGED pc
          /\ UNCHANGED best
  /\ UNCHANGED <<mount, call, last_time, subdirs, names, size>>

\* main.c: GetRealPathAndLastTime.  A path no directory has is left relative, and
\* means one in the working directory.
LookForPath ==
  /\ pc = "exists"
  /\ IF dir = Nowhere
     THEN /\ pc' = IF call.op = "read" THEN "regular" ELSE "stat"
          /\ best' = IF best = Nowhere THEN Cwd ELSE best
          /\ UNCHANGED <<dir, reply>>
     ELSE /\ IF Hidden(dir, call.path) THEN Crash /\ UNCHANGED dir
             ELSE /\ UNCHANGED reply
                  /\ IF Exists(dir, call.path) THEN pc' = "time" /\ UNCHANGED dir
                                               ELSE dir' = dir + 1 /\ UNCHANGED pc
          /\ UNCHANGED best
  /\ UNCHANGED <<mount, call, last_time, subdirs, names, size>>

\* Mutant: the first directory that has the path is taken.
TakeFirst ==
  /\ pc = "time"
  /\ IF ~Visible(dir, call.path) THEN Crash /\ UNCHANGED lookup
     ELSE /\ pc' = "exists" /\ dir' = dir + 1 /\ UNCHANGED <<last_time, reply>>
          /\ best' = IF best = Nowhere THEN dir ELSE best
  /\ UNCHANGED <<mount, call, subdirs, names, size>>

TakeNewer ==
  /\ pc = "time"
  /\ IF ~Visible(dir, call.path) THEN Crash /\ UNCHANGED lookup
     ELSE /\ pc' = "exists" /\ dir' = dir + 1 /\ UNCHANGED reply
          /\ IF best = Nowhere \/ disk[dir][call.path].time > last_time
             THEN best' = dir /\ last_time' = disk[dir][call.path].time
             ELSE UNCHANGED <<best, last_time>>
  /\ UNCHANGED <<mount, call, subdirs, names, size>>

-----------------------------------------------------------------------------
Attributes(d, p) == [what |-> "attr", kind |-> disk[d][p].kind, from |-> d]
Data(d, claimed, got) == [what |-> "data", from |-> d, claimed |-> claimed, got |-> got]

\* stat of the path found.  When it fails, inf24-1.cpp returns its -1, and main.c
\* says all is well with an empty record.
GetAttr ==
  /\ pc = "stat" /\ call.op = "getattr"
  /\ Reply(IF Visible(best, call.path) THEN Attributes(best, call.path)
           ELSE Error(IF program = "inf24_1" THEN "EPERM" ELSE "blank"))
  /\ UNCHANGED <<mount, call, loop>>

\* offset >= len, and size = min (size, len - offset)
Clamp(len) ==
  IF call.range[1] >= len
  THEN Reply(Data(best, 0, 0)) /\ UNCHANGED size
  ELSE /\ size' = Min({call.range[2], len - call.range[1]})
       /\ pc' = "open" /\ UNCHANGED reply

\* read_callback: the kind and the length by stat, or zeros when it fails.
ReadStat ==
  /\ pc = "stat" /\ call.op = "read"
  /\ IF Hidden(best, call.path) THEN Clamp(0)
     ELSE IF IsDir(best, call.path) THEN Reply(Error("EISDIR")) /\ UNCHANGED size
     ELSE Clamp(disk[best][call.path].len)
  /\ UNCHANGED <<mount, call, lookup, subdirs, names>>

\* ReadCallback: is_regular_file, then file_size; both throw, the first not for
\* a file that is gone.
IsRegular ==
  /\ pc = "regular"
  /\ IF Hidden(best, call.path) THEN Crash
     ELSE IF IsFile(best, call.path) THEN pc' = "size" /\ UNCHANGED reply
     ELSE Reply(Data(best, 0, 0))
  /\ UNCHANGED <<mount, call, loop>>

FileSize ==
  /\ pc = "size"
  /\ IF IsFile(best, call.path) /\ ~Hidden(best, call.path)
     THEN Clamp(disk[best][call.path].len)
     ELSE Crash /\ UNCHANGED size
  /\ UNCHANGED <<mount, call, lookup, subdirs, names>>

\* open, seek and read; what they return is not looked at, and size is returned.
ReadFile ==
  LET len == IF Unreadable(best, call.path) THEN 0 ELSE disk[best][call.path].len
  IN  /\ pc = "open"
      /\ Reply(Data(best, size,
                    Cardinality(call.range[1] + 1 .. Min({call.range[1] + size, len}))))
      /\ UNCHANGED <<mount, call, loop>>

-----------------------------------------------------------------------------
\* readdir: inf24-1.cpp collects the directories to list before it lists them,
\* main.c lists each where it finds it.
CheckDir ==
  /\ pc = "check" /\ dir # Nowhere
  /\ IF Hidden(dir, call.path) THEN Crash /\ UNCHANGED <<dir, subdirs>>
     ELSE /\ dir' = dir + 1 /\ UNCHANGED reply
          /\ IF IsDir(dir, call.path)
             THEN /\ subdirs' = Append(subdirs, dir)
                  /\ pc' = IF program = "main_c" THEN "list" ELSE pc
             ELSE UNCHANGED <<pc, subdirs>>
  /\ UNCHANGED <<mount, call, best, last_time, names, size>>

EndOfDirs ==
  /\ pc = "check" /\ dir = Nowhere
  /\ IF program = "main_c" THEN Reply([what |-> "names", names |-> names])
     ELSE IF subdirs = <<>> THEN Reply(Error("ENOENT"))
     ELSE pc' = "list" /\ UNCHANGED reply
  /\ UNCHANGED <<mount, call, loop>>

ListDir ==
  /\ pc = "list" /\ subdirs # <<>>
  /\ LET d == Head(subdirs)
     IN  IF IsDir(d, call.path) /\ ~Unreadable(d, call.path)
         THEN /\ names' = names \cup Children(d, call.path)
              /\ subdirs' = Tail(subdirs)
              /\ pc' = IF program = "main_c" THEN "check" ELSE pc
              /\ UNCHANGED reply
         ELSE Crash /\ UNCHANGED <<names, subdirs>>
  /\ UNCHANGED <<mount, call, lookup, size>>

EndOfList ==
  /\ pc = "list" /\ subdirs = <<>>
  /\ Reply([what |-> "names", names |-> names])
  /\ UNCHANGED <<mount, call, loop>>

Program ==
  \/ Begin \/ End \/ get_last_changed_name \/ LookForPath \/ TakeNewer
  \/ GetAttr \/ ReadStat \/ IsRegular \/ FileSize \/ ReadFile
  \/ CheckDir \/ EndOfDirs \/ ListDir \/ EndOfList

-----------------------------------------------------------------------------
(***************************************************************************)
(* Others change the directories: a file is written, removed or created, a *)
(* directory created or, when it is empty, removed, and either is locked   *)
(* or unlocked.                                                            *)
(***************************************************************************)
Now == MaxTime + changes + 1

Disturb(kind) ==
  /\ pc # "crashed" /\ changes < MaxChanges
  /\ changes' = changes + 1
  /\ disturbed' = IF pc = "idle" THEN disturbed ELSE disturbed \cup {kind}
  /\ UNCHANGED <<program, tree, pc, call, loop, reply>>

Change(d, p, entry, kind) ==
  /\ Disturb(kind)
  /\ disk' = IF kind = "written" THEN [disk EXCEPT ![d][p] = entry]
             ELSE [disk EXCEPT ![d][p] = entry, ![d][Front(p)].time = Now]
  /\ locked' = IF kind = "removed" THEN locked \ {<<d, p>>} ELSE locked

Chmod(d, p) ==
  /\ Disturb("chmod") /\ Exists(d, p)
  /\ locked' = IF <<d, p>> \in locked THEN locked \ {<<d, p>>} ELSE locked \cup {<<d, p>>}
  /\ UNCHANGED disk

Edit(d, p) ==
  \/ \E n \in {1, 2} : IsFile(d, p) /\ Change(d, p, File(Now, n), "written")
  \/ Exists(d, p) /\ Children(d, p) = {} /\ Change(d, p, Missing, "removed")
  \/ \E entry \in {File(Now, 2)} \cup (IF Len(p) = 1 THEN {Directory(Now)} ELSE {}) :
       ~Exists(d, p) /\ IsDir(d, Front(p)) /\ Change(d, p, entry, "created")

Others == \E d \in Dirs, p \in Paths : Chmod(d, p) \/ (p # Root /\ Edit(d, p))

Crashed == pc = "crashed" /\ UNCHANGED vars

Next == Program \/ Others \/ Crashed

Spec == Init /\ [][Next]_vars

-----------------------------------------------------------------------------
TypeOK ==
  /\ program \in {"inf24_1", "main_c"}
  /\ \A d \in Dirs \cup {Cwd}, p \in Paths :
       /\ disk[d][p] \in [kind : {"missing", "file", "dir"}, time : 0 .. Now, len : 0 .. 2]
       /\ p # Root /\ Exists(d, p) => IsDir(d, Front(p))
  /\ locked \subseteq Lockable
  /\ changes \in 0 .. MaxChanges
  /\ tree \in [Paths -> Dirs \cup {Nowhere}]
  /\ pc \in {"idle", "cached", "exists", "time", "stat", "regular", "size", "open",
             "check", "list", "replied", "crashed"}
  /\ call \in Calls \cup {NoCall}
  /\ dir \in 1 .. Nowhere /\ best \in 0 .. Nowhere /\ last_time \in 0 .. Now
  /\ subdirs \in Seq(Dirs) /\ names \subseteq {"a", "b"} /\ size \in 0 .. 2
  /\ disturbed \subseteq {"written", "removed", "created", "chmod"}

\* The program only dies of something that has been removed while it served a
\* call, or of a closed directory at the path or above it; and it only claims more
\* bytes than it has read when the file has been written, removed or given another
\* mode since its length was taken, or may not be read at all.
OnlyChangesHurt ==
  /\ pc = "crashed" =>
       \/ "removed" \in disturbed
       \/ \E d \in Dirs \cup {Cwd} : Hidden(d, call.path) \/ Closed(d, call.path)
  /\ reply.what = "data" /\ reply.claimed # reply.got =>
       \/ disturbed \cap {"written", "removed", "chmod"} # {}
       \/ Unreadable(reply.from, call.path)

\* The types, and what can hurt.
Inv == TypeOK /\ OnlyChangesHurt

\* The directories merged: what a call should be answered while nothing changes.
Merged(c) ==
  LET dirs == {d \in Dirs : IsDir(d, c.path)}
      served(d) == LET len == disk[d][c.path].len
                       n == Cardinality(c.range[1] + 1 .. Min({c.range[1] + c.range[2], len}))
                   IN  IF IsDir(d, c.path) /\ program = "inf24_1" THEN Error("EISDIR")
                                                                  ELSE Data(d, n, n)
  IN  IF c.op = "readdir"
      THEN IF dirs = {} /\ program = "inf24_1" THEN {Error("ENOENT")}
           ELSE {[what |-> "names", names |-> UNION {Children(d, c.path) : d \in dirs}]}
      ELSE IF Newest(c.path) = {} THEN {Error("ENOENT")}
      ELSE IF c.op = "getattr" THEN {Attributes(d, c.path) : d \in Newest(c.path)}
      ELSE {served(d) : d \in Newest(c.path)}

\* What a program does not answer as it should: inf24-1.cpp after a change since
\* the mount, except for a list; main.c for a path that no directory has; and
\* both when the newest file of the path may not be read.
NotPromised ==
  \/ program = "inf24_1" /\ changes > 0 /\ call.op # "readdir"
  \/ program = "main_c" /\ Newest(call.path) = {} /\ call.op # "readdir"
  \/ call.op = "read" /\ \E d \in Newest(call.path) : Unreadable(d, call.path)

\* A call that nobody disturbs is answered from the newest file of its path, and
\* a directory lists the names of all.
ServesTheMerge ==
  pc = "replied" /\ disturbed = {} /\ ~NotPromised => reply \in Merged(call)

\* The comment at main.c:94: on an error, the callback returns -errno.  It returns
\* 0 and leaves the record as it was ("blank").
GetAttrReportsErrors == reply.what # "blank"
=============================================================================
