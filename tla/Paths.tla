-------------------------------- MODULE Paths --------------------------------
(***************************************************************************)
(* ResolvePath: which file a (cwd, path) pair of a tool call stands for,    *)
(* and whether plannotator may be started on it.  A path is the sequence of *)
(* its names from the root; a link's target is one, too.                    *)
(***************************************************************************)
EXTENDS Integers, Sequences, SequencesExt

CONSTANTS
    Names,    \* of files, directories and links
    Dotted,   \* those that begin with two dots and go on
    Up,       \* the name ..
    Raws,     \* paths as callers write them
    Cwds,     \* where they work
    FileSystems, \* what each path may be: Missing, Plain, or a link's target
    MaxLinks, \* EvalSymlinks gives up after so many
    Missing, Plain, Fails, Rejected, Pending

\* Names are as Clean leaves them, but for what callers write; none of the rest is a path.
ASSUME PathsAssumption ==
    /\ Dotted \subseteq Names /\ Up \notin Names /\ MaxLinks \in Nat
    /\ Cwds \subseteq Seq(Names)
    /\ Raws \subseteq [abs : BOOLEAN, names : Seq(Names \cup {Up})]
    /\ \A f \in FileSystems : \A p \in DOMAIN f : f[p] \in Seq(Names) \cup {Missing, Plain}
    /\ {Missing, Plain, Fails, Rejected, Pending} \cap Seq(Names) = {}
    /\ Missing # Plain /\ Rejected # Pending

VARIABLES fs, cwd, raw, answer

vars == <<fs, cwd, raw, answer>>

\* filepath.Clean, a name at a time.
Step(path, name) ==
    CASE name # Up   -> Append(path, name)
      [] path = <<>> -> path
      [] OTHER       -> Front(path)

\* filepath.Join of an absolute path and a relative one.
Join(path, names) ==
    LET at[n \in 0..Len(names)] == IF n = 0 THEN path ELSE Step(at[n - 1], names[n])
    IN  at[Len(names)]

Is(path) == IF path \in DOMAIN fs THEN fs[path] ELSE Missing

\* How far along the path there is something other than a directory or a file.
Turns(path) == {i \in 1..Len(path) : Is(SubSeq(path, 1, i)) # Plain}

\* The path with its first link replaced by the target, if there is a link to follow.
Follow(path) ==
    LET i == Min(Turns(path))
        target == Is(SubSeq(path, 1, i))
    IN  IF Turns(path) = {} \/ target = Missing THEN path
        ELSE target \o SubSeq(path, i + 1, Len(path))

EvalSymlinks(path) ==
    LET hop[n \in 0..MaxLinks] == IF n = 0 THEN path ELSE Follow(hop[n - 1])
        end == hop[MaxLinks]
    IN  IF Turns(end) = {} THEN end ELSE Fails

\* The path with its links resolved; as it is, if it leads nowhere, as that of a file to be
\* made does: its own links are then compared unresolved with a cwd whose links are not.
Real(path) == IF EvalSymlinks(path) # Fails THEN EvalSymlinks(path) ELSE path

\* Rel's first name tells: a path that is not below starts with "..", and so may the
\* name of a file that is.
descendant(parent, target) ==
    /\ IsPrefix(parent, target)
    /\ parent # target => target[Len(parent) + 1] \notin Dotted

Joined == IF raw.abs THEN Join(<<>>, raw.names) ELSE Join(Real(cwd), raw.names)

\* Mutants: a path that is below cwd as it is written is taken at once; cwd's links are
\* not looked at.
BugTakenAsWritten ==
    IF raw.names = <<>> /\ ~raw.abs THEN Rejected
    ELSE IF descendant(Real(cwd), Joined) \/ descendant(Real(cwd), Real(Joined)) THEN Joined ELSE Rejected

BugCwdAsWritten ==
    IF raw.names = <<>> /\ ~raw.abs THEN Rejected
    ELSE IF descendant(cwd, Real(Joined)) THEN Joined ELSE Rejected

\* Mutant: what is not there is refused.
BugMustExist ==
    IF (raw.names = <<>> /\ ~raw.abs) \/ EvalSymlinks(Joined) = Fails THEN Rejected
    ELSE IF descendant(Real(cwd), Real(Joined)) THEN Joined ELSE Rejected

\* A URL is passed on before any of this.
ResolvePath ==
    IF raw.names = <<>> /\ ~raw.abs THEN Rejected
    ELSE IF descendant(Real(cwd), Real(Joined)) THEN Joined ELSE Rejected

Init == fs \in FileSystems /\ cwd \in Cwds /\ raw \in Raws /\ answer = Pending

Next == answer = Pending /\ answer' = ResolvePath /\ UNCHANGED <<fs, cwd, raw>>

Spec == Init /\ [][Next]_vars
-----------------------------------------------------------------------------
\* What ResolvePath hands on is clean: no .. is left for a later reader to follow.
TypeOK ==
    /\ fs \in FileSystems /\ cwd \in Cwds /\ raw \in Raws
    /\ answer \in Seq(Names) \cup {Pending, Rejected}

Exists(path) == EvalSymlinks(path) # Fails
Accepted == answer \notin {Pending, Rejected}

\* Through whatever links, a path that is accepted and leads to a file leads to one
\* below cwd (spec.md 202-205).
AcceptedLeadsInside ==
    Accepted /\ Exists(answer) => IsPrefix(Real(cwd), EvalSymlinks(answer))

\* No file below cwd is refused, by whatever links it is named and cwd is reached, but
\* for what is in a directory of cwd, or is a file there, whose name begins with two dots
\* (paths.go 28-48, 55-73).
InsideIsAccepted ==
    answer = Rejected /\ raw.names # <<>> /\ Exists(Joined) =>
        LET root == Real(cwd) file == EvalSymlinks(Joined)
        IN  IsPrefix(root, file) => Len(file) > Len(root) /\ file[Len(root) + 1] \in Dotted

\* A file to be made is not refused for not being there, if its directory is below cwd and
\* no link leads there, but for the same dots (paths.go 42-48: "new file Plannotator may
\* create").  Of one that a link stands before it says nothing.
NewFilesAreAccepted ==
    answer = Rejected /\ Joined # <<>> /\ Is(Joined) = Missing =>
        LET root == Real(cwd) dir == Front(Joined)
        IN  raw.names # <<>> /\ EvalSymlinks(dir) = dir /\ IsPrefix(root, dir) =>
                Joined[Len(root) + 1] \in Dotted
=============================================================================
