------------------------------ MODULE Scaffold ------------------------------
(***************************************************************************)
(* The `create <name>` command of src/cmd/create.go: rootDir is            *)
(* path.Join(cwd, name); scaffold refuses a rootDir that does not start    *)
(* with GOPATH/src (a string prefix test) or that exists, computes the Go  *)
(* package path GoPkg by trimming "GOPATH/src/", extracts the template     *)
(* tree in httpfs.Walk order (the root, then each directory's entries,     *)
(* parents before their children), prints it with ui.Tree, and the app is  *)
(* built.  Any error ends the command in ui.Fatal; nothing written is      *)
(* removed.  The user may run `create` again, up to MaxAttempts times.     *)
(*                                                                         *)
(* Paths are sequences of one-character strings, so that the string prefix *)
(* tests are the code's.  A destination directory is the set of template   *)
(* entries written into it (a file keeps a ".tmpl" suffix or not), and 0   *)
(* for content the user had there before.                                  *)
(***************************************************************************)
EXTENDS Naturals, Sequences, FiniteSets

CONSTANTS
    GoSrc,        \* goSrc(): GOPATH/src, a clean absolute path
    RootDirs,     \* the paths path.Join(getCwd(cmd), name) yields
    Existing,     \* the directories among them that exist before any create
    Assets,       \* templates.Assets in Walk order: [parent, dir, tmpl]
    MaxAttempts   \* bound on the `create` commands the user runs

ASSUME ConstAssumption ==
    /\ Existing \subseteq RootDirs
    /\ Assets \in Seq([parent : Nat, dir : BOOLEAN, tmpl : BOOLEAN])
    /\ Len(Assets) >= 1 /\ Assets[1].dir /\ Assets[1].parent = 0
    /\ \A i \in 2..Len(Assets) : Assets[i].parent \in 1..(i - 1)
    /\ MaxAttempts \in Nat

Slash == <<"/">>

\* strings.HasPrefix and strings.TrimPrefix.
HasPrefix(s, p) == Len(p) <= Len(s) /\ SubSeq(s, 1, Len(p)) = p

TrimPrefix(s, p) == IF HasPrefix(s, p) THEN SubSeq(s, Len(p) + 1, Len(s)) ELSE s

\* The entry a template is written as: path.Join(dst, templatized name),
\* with ".tmpl" left on or trimmed.
Entry(i, suffix) == [asset |-> i, suffix |-> suffix]

UserContent == 0

VARIABLES
    pc,        \* "idle", "gopath", "stat", "extract", "tree", "build", "done", "failed"
    rootDir,   \* the destination of the current command
    goPkg,     \* templateContext.GoPkg
    next,      \* the Walk position of extractFiles
    disk,      \* disk[r]: what the directory r holds ({} = it does not exist)
    mine,      \* the entries the current command has written
    attempts   \* the `create` commands run so far

vars == <<pc, rootDir, goPkg, next, disk, mine, attempts>>

TypeOK ==
    /\ pc \in {"idle", "gopath", "stat", "extract", "tree", "build", "done", "failed"}
    /\ rootDir \in RootDirs \cup {<<>>}
    /\ goPkg \in Seq(STRING)
    /\ next \in 1..(Len(Assets) + 1)
    /\ disk \in [RootDirs -> SUBSET ({UserContent} \cup [asset : DOMAIN Assets, suffix : BOOLEAN])]
    /\ mine \subseteq [asset : DOMAIN Assets, suffix : BOOLEAN]
    /\ attempts \in 0..MaxAttempts

Init ==
    /\ pc = "idle"
    /\ rootDir = <<>>
    /\ goPkg = <<>>
    /\ next = 1
    /\ disk = [r \in RootDirs |-> IF r \in Existing THEN {UserContent} ELSE {}]
    /\ mine = {}
    /\ attempts = 0

-----------------------------------------------------------------------------
\* ui.Fatal: the error is printed and the process exits with status 1.
Fail ==
    /\ pc' = "failed"
    /\ UNCHANGED <<rootDir, goPkg, next, disk, mine, attempts>>

\* createCmd's Run: rootDir := path.Join(getCwd(cmd), name); create() logs
\* and calls scaffold.
Run ==
    /\ pc \in {"idle", "done", "failed"}
    /\ attempts < MaxAttempts
    /\ \E r \in RootDirs : rootDir' = r
    /\ pc' = "gopath"
    /\ attempts' = attempts + 1
    /\ next' = 1
    /\ mine' = {}
    /\ UNCHANGED <<goPkg, disk>>

\* if !strings.HasPrefix(rootDir, gosource) { return error }
CheckGoPath ==
    /\ pc = "gopath"
    /\ \/ HasPrefix(rootDir, GoSrc) /\ pc' = "stat"
          /\ UNCHANGED <<rootDir, goPkg, next, disk, mine, attempts>>
       \/ ~HasPrefix(rootDir, GoSrc) /\ Fail

\* Mutant: os.IsExist(err) for !os.IsNotExist(err); os.Stat of an existing
\* path returns a nil error, so the test never refuses.
StatIsExist ==
    /\ pc = "stat"
    /\ \/ /\ pc' = "extract"
          /\ goPkg' = TrimPrefix(rootDir, GoSrc \o Slash)
          /\ UNCHANGED <<rootDir, next, disk, mine, attempts>>
       \/ Fail

\* if _, err := os.Stat(rootDir); !os.IsNotExist(err) { return error }:
\* an existing path, or a Stat that fails otherwise, refuses.  Then the
\* templateContext with GoPkg = strings.TrimPrefix(rootDir, gosource+"/").
Stat ==
    /\ pc = "stat"
    /\ \/ /\ disk[rootDir] = {}
          /\ pc' = "extract"
          /\ goPkg' = TrimPrefix(rootDir, GoSrc \o Slash)
          /\ UNCHANGED <<rootDir, next, disk, mine, attempts>>
       \/ Fail

\* Write one entry into the destination.
Put(e) ==
    /\ disk' = [disk EXCEPT ![rootDir] = @ \cup {e}]
    /\ mine' = mine \cup {e}
    /\ next' = next + 1
    /\ UNCHANGED <<pc, rootDir, goPkg, attempts>>

\* Mutant: the ".tmpl" suffix is left on the written file.
ExtractKeepingSuffix ==
    /\ pc = "extract"
    /\ next <= Len(Assets)
    /\ LET a == Assets[next] IN
       \/ a.dir /\ Put(Entry(next, FALSE))
       \/ /\ ~a.dir
          /\ Entry(a.parent, FALSE) \in disk[rootDir]
          /\ Put(Entry(next, a.tmpl))
       \/ Fail

\* The Walk callback extractFile for the next entry: a directory is
\* MkdirAll'ed (the root "/" is rootDir itself); a file is read, a ".tmpl"
\* one templatized and written without its suffix.  ioutil.WriteFile fails
\* when the parent directory is missing; any I/O error ends the walk.
Extract ==
    /\ pc = "extract"
    /\ next <= Len(Assets)
    /\ LET a == Assets[next] IN
       \/ a.dir /\ Put(Entry(next, FALSE))
       \/ /\ ~a.dir
          /\ Entry(a.parent, FALSE) \in disk[rootDir]
          /\ Put(Entry(next, FALSE))
       \/ Fail

\* httpfs.Walk has visited every entry.
Extracted ==
    /\ pc = "extract"
    /\ next = Len(Assets) + 1
    /\ pc' = "tree"
    /\ UNCHANGED <<rootDir, goPkg, next, disk, mine, attempts>>

\* ui.Tree(rootDir, ["k8s"]): walk reads every directory (ioutil.ReadDir),
\* skipping "k8s", and prints the tree; a ReadDir error is returned.
Tree ==
    /\ pc = "tree"
    /\ \/ pc' = "build" /\ UNCHANGED <<rootDir, goPkg, next, disk, mine, attempts>>
       \/ Fail

\* builder.New(rootDir, name).Build(ctx, ...), then ui.Success and
\* printGettingStarted.
Build ==
    /\ pc = "build"
    /\ \/ pc' = "done" /\ UNCHANGED <<rootDir, goPkg, next, disk, mine, attempts>>
       \/ Fail

\* The user runs no more commands.
Finished ==
    /\ pc \in {"idle", "done", "failed"}
    /\ attempts = MaxAttempts
    /\ UNCHANGED vars

Next ==
    \/ Run \/ CheckGoPath \/ Stat \/ Extract \/ Extracted \/ Tree \/ Build
    \/ Finished

Spec == Init /\ [][Next]_vars

-----------------------------------------------------------------------------
(* Properties                                                              *)

\* `create` never writes into a directory that was there before it ran (the
\* comment at the os.Stat check): while a command extracts, builds or has
\* succeeded, its destination holds exactly what it wrote itself, even after
\* an earlier command failed half-way into the same path.
NeverClobbers ==
    pc \in {"extract", "tree", "build", "done"} => disk[rootDir] = mine

\* A `create` that succeeds leaves the whole template tree, every ".tmpl"
\* file under its name without the suffix.
CreatedTreeComplete ==
    pc = "done" => disk[rootDir] = {Entry(i, FALSE) : i \in DOMAIN Assets}

\* The package path the templates are rendered with is the destination's
\* import path: rootDir is GOPATH/src/<GoPkg>, GoPkg not empty (what the
\* GOPATH check of scaffold means to ensure).
GoPkgIsImportPath ==
    pc \in {"extract", "tree", "build", "done"} =>
        /\ goPkg # <<>>
        /\ rootDir = GoSrc \o Slash \o goPkg

=============================================================================
