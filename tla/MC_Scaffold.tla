----------------------------- MODULE MC_Scaffold -----------------------------
EXTENDS Scaffold

\* GOPATH/src is "/s".
MCGoSrc == <<"/", "s">>

\* The destinations `create` may be given: an app under GOPATH/src ("/s/a"),
\* one whose directory is already there ("/s/b"), GOPATH/src itself
\* (`create .` from it), a directory that only shares the string prefix
\* ("/sa/a"), and one outside GOPATH ("/t").
MCRootDirs ==
    { <<"/", "s", "/", "a">>, <<"/", "s", "/", "b">>, <<"/", "s">>,
      <<"/", "s", "a", "/", "a">>, <<"/", "t">> }

MCExisting == { <<"/", "s">>, <<"/", "s", "/", "b">> }

\* "/", "/Makefile.tmpl", "/cmd", "/cmd/main.go": the root, a template, a
\* directory and a plain file in it, in Walk order.
MCAssets ==
    << [parent |-> 0, dir |-> TRUE,  tmpl |-> FALSE],
       [parent |-> 1, dir |-> FALSE, tmpl |-> TRUE],
       [parent |-> 1, dir |-> TRUE,  tmpl |-> FALSE],
       [parent |-> 3, dir |-> FALSE, tmpl |-> FALSE] >>

=============================================================================
