------------------------------ MODULE MCShell ------------------------------
(***************************************************************************)
(* Instances of CustomShell for model-checking.  A script says what the    *)
(* user may type at each prompt; TLC tries every choice, and every         *)
(* interleaving of the processes and signals that follow from it.          *)
(***************************************************************************)
EXTENDS Entries

CONSTANTS wpm, wa, wb     \* words

MCWords == {wpm, wa, wb}
MCpmanager == <<wpm>>

NameA == <<wa>>
NameB == <<wb>>
CloneOfA == CloneName(NameA, 1)
NoName == <<>>

Run(cmd, name) == [cmd |-> cmd, name |-> name, to |-> NoPid]

\* pmanager, the prmall at its end, and a command, a pinfo and a managed
\* process for each line.
PidsFor(script) == 2 + 3 * Len(script)

\* A process is started, then spoken to.
BasicScript ==
  << {Run("pnew", NameA)},
     {Run("pspawn", NameA), Run("pclose", NameA), Run("plist", NoName), Run("ptree", NoName)} >>
BasicPids == PidsFor(BasicScript)

\* Three lines, each any command there is, with names that clash: a second
\* process called a, and one called like the first clone of a.
AnyCommand ==
  {Run("pnew", name) : name \in {NameA, NameB, CloneOfA}}
    \union {Run("pclose", name) : name \in {NameA, pmanager}}
    \union {Run(cmd, NameA) : cmd \in {"pspawn", "prmall", "pinfo"}}
    \union {Run(cmd, NoName) : cmd \in {"plist", "ptree", "phelp", "quit", "other"}}
AnyScript == <<AnyCommand, AnyCommand, AnyCommand \union {Run("path", NoName)}>>
AnyPids == PidsFor(AnyScript)

\* Processes with clones, up to three generations, and what can be done to them.
FamilyScript ==
  << {Run("pnew", NameA)},
     {Run("pspawn", NameA), Run("pnew", NameB)},
     {Run("pspawn", NameA), Run("pspawn", CloneOfA), Run("pclose", NameA), Run("pnew", CloneOfA)},
     {Run("prmall", NameA), Run("prmall", pmanager), Run("plist", NoName), Run("ptree", NoName),
      Run("pclose", NameA), Run("pspawn", NameA)} >>
FamilyPids == PidsFor(FamilyScript)

\* Names with delimiters at either end, inside, and alone.
OddName ==
  {<<wa, Semi>>, <<Semi, wa>>, <<wa, Semi, wb>>, <<Semi>>,
   <<Semi, Colon>>, <<wa, Semi, Colon>>, <<wa, Colon>>, <<wa, Colon, wb>>, <<Colon>>}
OddCommand ==
  {Run("pnew", name) : name \in OddName \union {NameA}}
    \union {Run(cmd, NameA) : cmd \in {"pclose", "prmall"}}
    \union {Run("plist", NoName)}
OddScript == <<OddCommand, OddCommand>>
OddPids == PidsFor(OddScript)

\* One line, to be interrupted.
OneCommand ==
  {Run("pnew", NameA), Run("plist", NoName)}
    \union {Run(cmd, pmanager) : cmd \in {"pinfo", "pclose", "prmall"}}
OneScript == <<OneCommand>>
OnePids == PidsFor(OneScript)

\* A process is cloned whose name pmanager cannot decode from its clones' names.
RefusedScript == << {Run("pnew", <<wa, Semi>>)}, {Run("pspawn", NameA)} >>
RefusedPids == PidsFor(RefusedScript)

\* A command that cannot be executed, and one after it.
PathScript == << {Run("path", NoName)}, {Run("phelp", NoName)} >>
PathPids == PidsFor(PathScript)

=============================================================================
