------------------------------- MODULE FileUtil -------------------------------
(***************************************************************************)
(* rc_server/CFileUtil: make_dirs and touchFile, called by processes that  *)
(* share a file system (a daemon started twice, a client beside it).  A    *)
(* path is a sequence of characters; every stat, mkdir and open is a step  *)
(* of its own.                                                             *)
(***************************************************************************)
EXTENDS Integers, Sequences, SequencesExt, Selections

CONSTANTS
  Proc,      \* processes that call make_dirs or touchFile
  CallPath,  \* the paths they pass
  Cwd,       \* the components of getcwd's answer, without the empty first one
  PlainFile      \* components of the one plain file that may be there, or <<>>

ASSUME PathsAssumption ==
  /\ \A path \in CallPath : path \in Seq(Range(path)) /\ path # <<>>
  /\ Cwd \in Seq(Range(Cwd))

-----------------------------------------------------------------------------
(* Paths *)

\* split_into_components: the pieces between slashes; a last empty one is lost.
split_into_components(path) ==
  LET slash == {i \in DOMAIN path : path[i] = "/"}
      cut == Those([i \in 1 .. Len(path) + 2 |-> i - 1], slash \cup {0, Len(path) + 1})
      piece == [k \in 1 .. Len(cut) - 1 |-> SubSeq(path, cut[k] + 1, cut[k + 1] - 1)]
  IN  IF Last(piece) = <<>> THEN Front(piece) ELSE piece

remove_empty(c) == Those(c, Range(c) \ {<<>>})

\* split_path, behind the special empty component; <<>> stands for "false".  An
\* absolute path is taken as it is, anything of less than two components, the
\* root too, is a path from the current directory.
split_path(path) ==
  LET c == split_into_components(path)
  IN  IF Len(c) >= 2 /\ c[1] = <<>>
        THEN remove_empty(c)
        ELSE Cwd \o remove_empty(c)

EndsInSeparator(path) == Last(path) \in {"/", "\\"}

\* make_dirs: the components to create; the file name is none of them.
Targets(path) ==
  LET c == split_path(path)
  IN  IF c = <<>> \/ EndsInSeparator(path) THEN c ELSE Front(c)

-----------------------------------------------------------------------------
(* make_dirs and touchFile *)

VARIABLES
  dirs,    \* the directories there are, as sequences of components
  files,   \* the plain files
  maker,   \* history: who made a directory
  call     \* call[p]: what process p is doing

fileVars == <<dirs, files, maker, call>>

Idle == [pc |-> "idle", path |-> <<>>, at |-> 0, result |-> "none"]

FileInit ==
  /\ dirs = {SubSeq(Cwd, 1, n) : n \in 0 .. Len(Cwd)}
  /\ files \in {{}, {PlainFile} \ {<<>>}}
  /\ maker = [d \in {} |-> {}]
  /\ call = [p \in Proc |-> Idle]

Exists(c) == c \in dirs \cup files
Goes(p, pc) == call' = [call EXCEPT ![p].pc = pc]
Prefix(p, n) == SubSeq(Targets(call[p].path), 1, n)

make_dirs(p, path) ==
  /\ call[p].pc = "idle"
  /\ call' = [call EXCEPT ![p] =
       IF split_path(path) = <<>>
         THEN [pc |-> "done", path |-> path, at |-> 0, result |-> "-1"]
         ELSE [pc |-> "stat", path |-> path, at |-> 1, result |-> "none"]]
  /\ UNCHANGED <<dirs, files, maker>>

Ends(p, result) == call' = [call EXCEPT ![p].pc = "done", ![p].result = result]

\* getFileInfo, a stat: whatever is there, a plain file too, counts.
stat(p) ==
  LET n == call[p].at
  IN  /\ call[p].pc = "stat"
      /\ IF n > Len(Targets(call[p].path)) THEN Ends(p, "0")
         ELSE IF Exists(Prefix(p, n)) THEN call' = [call EXCEPT ![p].at = n + 1]
         ELSE Goes(p, "mkdir")
      /\ UNCHANGED <<dirs, files, maker>>

\* The system's mkdir, where nothing is in the way.
Makes(p, d) ==
  /\ dirs' = dirs \cup {d}
  /\ maker' = [c \in DOMAIN maker \cup {d} |-> IF c = d THEN p ELSE maker[c]]

\* Mutant: errno is not looked at.
mkdirMutant(p) ==
  LET d == Prefix(p, call[p].at)
  IN  /\ call[p].pc = "mkdir"
      /\ call' = [call EXCEPT ![p].pc = "stat", ![p].at = @ + 1]
      /\ IF ~Exists(d) /\ Front(d) \in dirs
           THEN Makes(p, d)
           ELSE UNCHANGED <<dirs, maker>>
      /\ UNCHANGED files

\* make_directory: EEXIST, ENOTDIR and ENOENT end make_dirs.
mkdir(p) ==
  LET d == Prefix(p, call[p].at)
  IN  /\ call[p].pc = "mkdir"
      /\ IF ~Exists(d) /\ Front(d) \in dirs
           THEN /\ Makes(p, d)
                /\ call' = [call EXCEPT ![p].pc = "stat", ![p].at = @ + 1]
           ELSE Ends(p, "-1") /\ UNCHANGED <<dirs, maker>>
      /\ UNCHANGED files

\* touchFile does not look at make_dirs' result and opens the file.
touchFile(p) ==
  LET f == split_path(call[p].path)
  IN  /\ call[p].pc = "done" /\ call[p].result \in {"0", "-1"}
      /\ IF /\ f # <<>> /\ ~EndsInSeparator(call[p].path)
            /\ Front(f) \in dirs /\ f \notin dirs
           THEN files' = files \cup {f} /\ Ends(p, "true")
           ELSE UNCHANGED files /\ Ends(p, "false")
      /\ UNCHANGED <<dirs, maker>>

\* The caller goes on.
Returned(p) ==
  /\ call[p].pc = "done"
  /\ call' = [call EXCEPT ![p] = Idle]
  /\ UNCHANGED <<dirs, files, maker>>

FileNext ==
  \E p \in Proc :
    \/ \E path \in CallPath : make_dirs(p, path)
    \/ stat(p) \/ mkdir(p) \/ touchFile(p) \/ Returned(p)

-----------------------------------------------------------------------------
(* Properties *)

\* make_dirs, raced by others: 0 means that all of the path is there, and -1
\* that a plain file is in the way or another process has just created the very
\* component at which it gave up.
MakesDirs ==
  \A p \in Proc : call[p].pc = "done" =>
    LET all == Targets(call[p].path)
        d == SubSeq(all, 1, call[p].at)
    IN  /\ call[p].result = "0" =>
             \A n \in DOMAIN all : Exists(SubSeq(all, 1, n))
        /\ call[p].result = "-1" =>
             \/ all = <<>> \/ \E n \in DOMAIN all : SubSeq(all, 1, n) \in files
             \/ d \in DOMAIN maker /\ maker[d] # p
        /\ call[p].result = "true" => split_path(call[p].path) \in files

=============================================================================
