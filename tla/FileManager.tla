---------------------------- MODULE FileManager ----------------------------
(***************************************************************************)
(* FileManager's view of the media directory: how a requested name becomes *)
(* a path below the root or is refused, and what a path or an entry is.    *)
(*                                                                         *)
(* A path is the sequence of its components from "/" on, a component a     *)
(* sequence of tokens; "." and ".." are tokens too, so that ".." alone, a  *)
(* name that starts with two dots and a hidden name can be told apart.     *)
(* The file system is the set `here` of the files and links that exist.    *)
(***************************************************************************)
EXTENDS Integers, Sequences, FiniteSets, SequencesExt

CONSTANTS Root,    \* canonical_root_
          Files,   \* regular files that may exist
          Links,   \* symbolic links that may exist, with their targets
          Dirs     \* directories, which always exist

NUL    == "nul"
NoPath == <<>>

\* A name in a directory.
IsName(name) ==
    /\ name \in Seq(Range(name))
    /\ name \notin {<<>>, <<".">>, <<"..">>}
    /\ {"/", NUL} \cap Range(name) = {}

\* A file below the root is reached from there through directories.
ASSUME FilesAssumption ==
    /\ Root \in Dirs
    /\ Files \cap DOMAIN Links = {} /\ Files \cap Dirs = {}
    /\ Dirs \cap DOMAIN Links = {}
    /\ Range(Links) \cap DOMAIN Links = {}   \* Links gives the last target
    /\ \A path \in {Root} \cup Range(Links) : path \in Seq(Range(path))
    /\ \A f \in Files : IsPrefix(Root, f) =>
          /\ f \in Seq(Range(f))
          /\ \A i \in Len(Root) + 1 .. Len(f) :
                IsName(f[i]) /\ SubSeq(f, 1, i - 1) \in Dirs

Ends(filename) == {i \in DOMAIN filename : filename[i] = "/"}
                  \cup {Len(filename) + 1}

Cuts(filename) ==
    LET cut[k \in 0 .. Cardinality(Ends(filename))] ==
            IF k = 0 THEN 0
            ELSE LET last == cut[k - 1]
                 IN  Min({i \in Ends(filename) : i > last})
    IN  cut

\* A name is cut at its slashes.
Components(filename) ==
    LET cut == Cuts(filename)
    IN  [k \in 1 .. Cardinality(Ends(filename)) |->
            SubSeq(filename, cut[k - 1] + 1, cut[k] - 1)]

\* The name that is cut into given components.
Join(c) ==
    LET name[k \in 0 .. Len(c)] ==
            IF k = 0 THEN <<>>
            ELSE IF k = 1 THEN c[1] ELSE name[k - 1] \o <<"/">> \o c[k]
    IN  name[Len(c)]

\* What stat() and open() reach at a path whose directories are resolved; a
\* link to nothing stays where it is.
Follow(here, path) ==
    IF path \in DOMAIN Links \cap here /\ Links[path] \in here \cup Dirs
    THEN Links[path] ELSE path

\* One component further: a link is followed while the path exists; what is
\* behind is only normalised.
Enter(here, place, name) ==
    LET real == place.real /\ place.at \in Dirs
        next == IF name \in {<<>>, <<".">>} THEN place.at
                ELSE IF name = <<"..">> THEN Front(place.at)
                ELSE Append(place.at, name)
    IN  [at |-> IF real THEN Follow(here, next) ELSE next, real |-> real]

\* The places on the way from the root along the components of a name.
Walk(here, c) ==
    LET walk[i \in 0 .. Len(c)] ==
            IF i = 0 THEN [at |-> Root, real |-> TRUE]
            ELSE Enter(here, walk[i - 1], c[i])
    IN  walk

\* All components of a name but the last are directories that exist.
Reaches(here, filename) ==
    LET c == Components(filename) IN Walk(here, c)[Len(c)].real

\* std::filesystem::weakly_canonical of canonical_root_ / filename. Behind what
\* is not a directory, a slash or dots at the end leave an empty component, so
\* that no file is found there.
Canonical(here, filename) ==
    LET c  == Components(filename)
        at == Walk(here, c)[Len(c)].at
    IN  IF Reaches(here, filename) \/ c[Len(c)] \notin {<<>>, <<".">>, <<"..">>}
        THEN at ELSE Append(at, <<>>)

lexically_relative(path, base) ==
    LET common == Len(LongestCommonPrefix({path, base}))
    IN  [i \in 1 .. Len(base) - common |-> <<"..">>]
        \o SubSeq(path, common + 1, Len(path))

Resolve(here, filename, Rejects(_)) ==
    LET path == Canonical(here, filename)
    IN  IF \/ filename = <<>>
           \/ NUL \in Range(filename)
           \/ Head(filename) = "/"
           \/ Rejects(lexically_relative(path, Root))
        THEN NoPath ELSE path

\* The first component of rel starts like this, whatever follows.
Starts(rel, token) == rel # <<>> /\ rel[1] # <<>> /\ rel[1][1] = token

StartsDotDot(rel) == Starts(rel, "..")

\* Mutant: nothing is rejected.
resolve_any_path(here, filename) == Resolve(here, filename, LAMBDA rel : FALSE)

\* Mutant: every name that starts with a dot is rejected.
resolve_no_dot(here, filename) ==
    Resolve(here, filename,
            LAMBDA rel : Starts(rel, ".") \/ StartsDotDot(rel))

\* That the file system may refuse to answer is in the actions that ask.
resolve_safe_path(here, filename) == Resolve(here, filename, StartsDotDot)

is_regular_file(here, path) == Follow(here, path) \in Files \cap here

Entries(here) == {p \in here \cup Dirs : Len(p) = Len(Root) + 1
                                          /\ IsPrefix(Root, p)}

Hidden(entry) == Last(entry)[1] \in {".", ".."}

\* The files that a listing is about.
Visible(here) ==
    {p \in Entries(here) : is_regular_file(here, p) /\ ~Hidden(p)}
=============================================================================
