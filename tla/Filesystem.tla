------------------------------ MODULE Filesystem ------------------------------
(***************************************************************************)
(* VirtualFilesystem of src/battousai/filesystem.py.  A path is the        *)
(* sequence of its parts, contents are their size.  A call that raises     *)
(* changes nothing.                                                        *)
(***************************************************************************)
EXTENDS Naturals, FiniteSetsExt, SequencesExt

CONSTANTS
  Users,     \* with "kernel"
  FileNames,
  MaxDepth,  \* bound on the length of paths
  MaxSize,   \* bound on the size of contents
  MaxFiles   \* bound on the number of files

FilesystemAssumption ==
  "kernel" \in Users /\ MaxDepth \in Nat /\ MaxSize \in Nat /\ MaxFiles \in Nat

Paths == UNION {[1 .. n -> FileNames] : n \in 1 .. MaxDepth}

VARIABLES
  dirs,        \* paths of the directories below the root
  files,       \* per path of a file: its metadata
  totalFiles,  \* _total_files
  totalSize,   \* _total_size
  buried       \* history: number and size of files that went with a directory

statistics == <<totalFiles, totalSize>>
filesystem == <<dirs, files, statistics, buried>>

PartsOf(path) == {SubSeq(path, 1, n) : n \in 1 .. Len(path)}
Above(path) == PartsOf(path) \ {path}
Below(path) == {p \in dirs \cup DOMAIN files : path \in PartsOf(p)}

\* can_write; group_agents stays empty.
CanWrite(agent, path) ==
  agent = "kernel" \/ agent = files[path].owner \/ files[path].worldWrite

\* Mutant of CanMake: only the whole path is looked at.
CanMakeLast(path) == path \notin DOMAIN files

\* _make_dirs succeeds: no part of the path is a file.
CanMake(path) == PartsOf(path) \cap DOMAIN files = {}

Size(paths) == SumFunctionOnSet([p \in DOMAIN files |-> files[p].size], paths)

-----------------------------------------------------------------------------
MakeDirs(path) ==
  /\ CanMake(path)
  /\ dirs' = dirs \cup PartsOf(path)
  /\ UNCHANGED <<files, statistics, buried>>

\* The metadata of a file, with the size of its content.
NewFile(agent, size, worldWrite) ==
  [owner |-> agent, size |-> size, worldWrite |-> worldWrite]

\* A new file and the parents it lacks; without create_parents the call would
\* raise instead.
CreateFile(agent, path, size, worldWrite) ==
  /\ path \notin dirs \cup DOMAIN files
  /\ Above(path) \cap DOMAIN files = {}
  /\ dirs' = dirs \cup Above(path)
  /\ files' = [p \in DOMAIN files \cup {path} |->
                 IF p = path
                 THEN NewFile(agent, size, worldWrite)
                 ELSE files[p]]
  /\ totalFiles' = totalFiles + 1
  /\ totalSize' = totalSize + size
  /\ UNCHANGED buried

\* An existing file: its owner and permissions stay.
OverwriteFile(agent, path, size) ==
  /\ path \in DOMAIN files
  /\ CanWrite(agent, path)
  /\ files' = [files EXCEPT ![path].size = size]
  /\ totalSize' = totalSize + size - files[path].size
  /\ UNCHANGED <<dirs, totalFiles, buried>>

\* Only a file asks for permission, a directory goes with all it holds.
MayDelete(agent, path) ==
  path \in dirs \/ (path \in DOMAIN files /\ CanWrite(agent, path))

DeleteFile(agent, path) ==
  LET gone == Below(path)
      lost == IF path \in dirs THEN gone \cap DOMAIN files ELSE {}
      counted == (gone \cap DOMAIN files) \ lost
  IN /\ MayDelete(agent, path)
     /\ dirs' = dirs \ gone
     /\ files' = [p \in DOMAIN files \ gone |-> files[p]]
     /\ totalFiles' = totalFiles - Cardinality(counted)
     /\ totalSize' = totalSize - Size(counted)
     /\ buried' = [count |-> buried.count + Cardinality(lost),
                   size |-> buried.size + Size(lost)]

FilesInit ==
  /\ dirs = {} /\ files = << >>
  /\ totalFiles = 0 /\ totalSize = 0
  /\ buried = [count |-> 0, size |-> 0]

\* MaxFiles bounds the files that are counted.
FilesNext ==
  \E path \in Paths :
    \/ MakeDirs(path)
    \/ \E agent \in Users :
         \/ \E size \in 0 .. MaxSize :
              \/ OverwriteFile(agent, path, size)
              \/ /\ totalFiles < MaxFiles
                 /\ \E worldWrite \in BOOLEAN : CreateFile(agent, path, size, worldWrite)
         \/ DeleteFile(agent, path)

FilesSpec == FilesInit /\ [][FilesNext]_filesystem

-----------------------------------------------------------------------------
(***************************************************************************)
(* The tree is sound (whatever lies in a directory, that directory exists, *)
(* and nothing is both file and directory), and the statistics are off by  *)
(* exactly what went with deleted directories.                             *)
(***************************************************************************)
TreeIsCounted ==
  /\ \A p \in dirs \cup DOMAIN files : Above(p) \subseteq dirs
  /\ dirs \cap DOMAIN files = {}
  /\ totalFiles = Cardinality(DOMAIN files) + buried.count
  /\ totalSize = Size(DOMAIN files) + buried.size
=============================================================================
