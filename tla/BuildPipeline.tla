---------------------------- MODULE BuildPipeline ----------------------------
(***************************************************************************)
(* scripts/tsan11.py: the targets that fetch, build and run everything.    *)
(* A target calls the targets it needs and runs its commands, and, but for *)
(* two of them, skips all that when its file or directory exists. Any      *)
(* command may fail, or be interrupted, and leave it half done; the user   *)
(* does what README.md says: removes it, and executes the command again.   *)
(* README.md says so of what is skipped, so the directories of the other   *)
(* two may well stay, and not all that is wrong in them is made again.     *)
(***************************************************************************)
EXTENDS Naturals, Sequences, Functions

CONSTANT MaxFailures \* bound: commands that fail though their inputs are there
ASSUME FailuresAssumption == MaxFailures \in Nat

VARIABLES
  disk,     \* what each file or directory under TSAN11_BUILD_ROOT holds
  todo,     \* what the script still has to do: the calls and commands on its stack
  asked,    \* the command the user wants, until it succeeds
  failed,   \* the target whose command failed last, until the user cleans up
  failures,
  left      \* history: the directories with a file cut short that the user left there

vars == <<disk, todo, asked, failed, failures, left>>

Configs == {"normal", "tsan", "tsan11"}
Common == {"ninja", "cmake", "llvm", "llvm_build", "llvm_patched", "llvm_patched_build",
           "cdschecker", "cdschecker_build", "cdschecker_results",
           "firefox", "depot_tools", "chromium"}
PerConfig == {"bench_build", "bench_results", "litmus_build", "litmus_results",
              "firefox_build", "chromium_build"}
Target == (Common \X {"all"}) \cup (PerConfig \X Configs)
Archive(a) == <<"archive of", a[1]>>
File == Target \cup {Archive(a) : a \in {<<"ninja", "all">>, <<"cmake", "all">>}}

\* A file holds nothing, something that is not complete, or what it should, made
\* without or with the patch of tsan11.diff. A directory is torn when a file in it
\* was cut short: it is newer than what it is made from, so copytree and make take
\* it for done.
Content == {"absent", "partial", "torn", "plain", "patched"}
None == <<"none", "all">>

-----------------------------------------------------------------------------

All(name) == <<name, "all">>

\* Mutants of Compiler: no configuration takes the patched one; each has its own.
CompilerAlwaysPlain(c) == All("llvm_build")
CompilerOfItsOwn(c) == <<"llvm_build", c>>

\* LLVM_BUILD or LLVM_PATCHED_BUILD.
Compiler(c) == All(IF c = "tsan11" THEN "llvm_patched_build" ELSE "llvm_build")

\* The targets a target calls, in order.
Needs(a) ==
  LET c == a[2] IN
  CASE a[1] = "llvm_build" -> <<All("llvm"), All("ninja"), All("cmake")>>
    [] a[1] = "llvm_patched" -> <<All("llvm")>>
    [] a[1] = "llvm_patched_build" -> <<All("llvm_patched"), All("ninja"), All("cmake")>>
    [] a[1] = "cdschecker_build" -> <<All("cdschecker")>>
    [] a[1] = "cdschecker_results" -> <<All("cdschecker_build")>>
    [] a[1] \in {"bench_build", "litmus_build"} -> <<Compiler(c)>>
    [] a[1] = "bench_results" -> <<<<"bench_build", c>>>>
    [] a[1] = "litmus_results" -> <<<<"litmus_build", c>>>>
    [] a[1] = "firefox_build" -> <<All("firefox"), Compiler(c)>>
    [] a[1] = "chromium" -> <<All("depot_tools")>>
    [] a[1] = "chromium_build" -> <<Compiler(c), All("chromium")>>
    [] OTHER -> << >>

\* "if fast_check and os.path.exists(...)": the targets that have no such test are
\* those that copy the programs and call make.
Remakes(a) == a[1] \in {"bench_build", "litmus_build"}
Skips(a) == ~Remakes(a) /\ disk[a] # "absent"

\* A target's own commands: "open" makes its file or directory, "fill" completes it.
Body(a) ==
  CASE a[1] \in {"ninja", "cmake"} -> <<"wget", "unpack">>
    [] a[1] = "llvm_patched" -> <<"open", "fill", "patch">>
    [] OTHER -> <<"open", "fill">>

Calls(as) == [i \in DOMAIN as |-> <<as[i], "call">>]
Commands(a) == [i \in DOMAIN Body(a) |-> <<a, Body(a)[i]>>]

\* build, run, build_firefox and build_chromium: the targets each calls.
ForAll(names) ==
  Calls([i \in 1..(3 * Len(names)) |->
           <<names[1 + ((i - 1) % Len(names))],
             <<"normal", "tsan", "tsan11">>[1 + ((i - 1) \div Len(names))]>>])
Script ==
  [build |-> ForAll(<<"bench_build", "litmus_build">>) \o Calls(<<All("cdschecker_build")>>),
   run |-> ForAll(<<"bench_results", "litmus_results">>) \o Calls(<<All("cdschecker_results")>>),
   build_firefox |-> ForAll(<<"firefox_build">>),
   build_chromium |-> ForAll(<<"chromium_build">>)]

\* What a command makes of its inputs.
Made(inputs) ==
  IF \E f \in inputs : disk[f] \in {"partial", "torn"} THEN "partial"
  ELSE IF \E f \in inputs : disk[f] = "patched" THEN "patched" ELSE "plain"

-----------------------------------------------------------------------------

Init ==
  /\ disk = [f \in File |-> "absent"]
  /\ todo = << >>
  /\ asked = "none"
  /\ failed = None
  /\ failures = 0
  /\ left = {}

\* The user executes a command; after a failure, the same one, once all is clean.
Execute(cmd) ==
  /\ todo = << >>
  /\ failed = None
  /\ asked \in {"none", cmd}
  /\ asked' = cmd
  /\ todo' = Script[cmd]
  /\ UNCHANGED <<disk, failed, failures, left>>

\* The script goes on with what is left; when nothing is, the command succeeded.
GoOn(rest) ==
  /\ todo' = rest
  /\ asked' = IF rest = << >> THEN "none" ELSE asked

\* The call of a target: it returns, or calls what it needs first.
Enter ==
  /\ todo # << >>
  /\ Head(todo)[2] = "call"
  /\ LET a == Head(todo)[1] IN
       GoOn((IF Skips(a) THEN << >> ELSE Calls(Needs(a)) \o Commands(a)) \o Tail(todo))
  /\ UNCHANGED <<disk, failed, failures, left>>

Inputs(a, step) ==
  CASE step \in {"wget", "open"} -> {}
    [] step = "unpack" -> {Archive(a)}
    [] step = "patch" -> {a}
    [] step = "fill" -> Range(Needs(a))

\* What a command leaves behind. wget does not overwrite an archive, even half of
\* one: it takes another name. copytree and make add what is not there, and leave
\* a file that is there as it is, even half of one.
Result(a, step) ==
  CASE step = "wget" /\ disk[Archive(a)] = "absent" -> [disk EXCEPT ![Archive(a)] = "plain"]
    [] step = "wget" /\ disk[Archive(a)] # "absent" -> disk
    [] step = "open" /\ Remakes(a) /\ disk[a] # "absent" -> disk
    [] step = "open" /\ ~(Remakes(a) /\ disk[a] # "absent") -> [disk EXCEPT ![a] = "partial"]
    [] step = "fill" /\ Remakes(a) /\ disk[a] # "partial" -> disk
    [] step = "patch" -> [disk EXCEPT ![a] = IF @ = "plain" THEN "patched" ELSE "partial"]
    [] OTHER -> [disk EXCEPT ![a] = Made(Inputs(a, step))]

\* unzip and tar refuse half an archive, and nothing is made of what is not there.
CanDo(a, step) ==
  \A f \in Inputs(a, step) : disk[f] # "absent" /\ (step = "unpack" => disk[f] # "partial")

\* A command succeeds.
Do ==
  /\ todo # << >>
  /\ LET a == Head(todo)[1]
         step == Head(todo)[2] IN
       /\ step # "call"
       /\ CanDo(a, step)
       /\ disk' = Result(a, step)
  /\ GoOn(Tail(todo))
  /\ UNCHANGED <<failed, failures, left>>

\* What it leaves half done when it fails. A directory that copytree or make was
\* filling lacks files, or the file that was being written is torn.
HalfDone(a, step) ==
  CASE step = "wget" /\ disk[Archive(a)] = "absent" -> {[disk EXCEPT ![Archive(a)] = "partial"]}
    [] step \in {"unpack", "patch"} -> {[disk EXCEPT ![a] = "partial"]}
    [] Remakes(a) /\ disk[a] \in {"absent", "partial"} ->
         {[disk EXCEPT ![a] = half] : half \in {"partial", "torn"}}
    [] step = "open" /\ ~Remakes(a) /\ disk[a] = "absent" -> {[disk EXCEPT ![a] = "partial"]}
    [] OTHER -> {}

\* A command fails for want of an input, or, as often as it is repeated, because of
\* a file cut short among what it works with; all other failures are counted.
Spoilt(a, step) == step = "fill" /\ \E f \in Inputs(a, step) \cup {a} : disk[f] = "torn"
OwnFault(a, step) == CanDo(a, step) /\ ~Spoilt(a, step)

\* Mutant of Fail: the exit code of a command is ignored.
FailGoesOn ==
  /\ todo # << >>
  /\ LET a == Head(todo)[1]
         step == Head(todo)[2] IN
       /\ step # "call"
       /\ OwnFault(a, step) => failures < MaxFailures
       /\ failures' = IF OwnFault(a, step) THEN failures + 1 ELSE failures
  /\ GoOn(Tail(todo))
  /\ UNCHANGED <<disk, failed, left>>

\* check_call raises, and the script ends: network, disk, a full /tmp, the user.
Fail ==
  /\ todo # << >>
  /\ LET a == Head(todo)[1]
         step == Head(todo)[2] IN
       /\ step # "call"
       /\ OwnFault(a, step) => failures < MaxFailures
       /\ failures' = IF OwnFault(a, step) THEN failures + 1 ELSE failures
       /\ disk' \in {disk} \cup HalfDone(a, step)
       /\ failed' = a
  /\ todo' = << >>
  /\ UNCHANGED <<asked, left>>

\* Mutant of Removes: the archive stays.
RemovesTarget(a) == {a}

\* The user removes what the failed command was to make, which README.md leaves to
\* them to find out; a directory that is not skipped may stay, torn or not.
Removes(a) == {a, Archive(a)} \cap File

Clean ==
  /\ failed # None
  /\ \/ /\ disk' = [f \in File |-> IF f \in Removes(failed) THEN "absent" ELSE disk[f]]
        /\ left' = left
     \/ /\ Remakes(failed)
        /\ disk' = disk
        /\ left' = IF disk[failed] = "torn" THEN left \cup {failed} ELSE left
  /\ failed' = None
  /\ UNCHANGED <<todo, asked, failures>>

Again(cmd) == asked = cmd /\ Execute(cmd)

Next ==
  \/ \E cmd \in DOMAIN Script : Execute(cmd)
  \/ Enter
  \/ Do
  \/ Fail
  \/ Clean

\* The script runs on, and the user does not give up.
Spec ==
  /\ Init
  /\ [][Next]_vars
  /\ WF_vars(Enter \/ Do \/ Fail)
  /\ WF_vars(Clean)
  /\ \A cmd \in DOMAIN Script : WF_vars(Again(cmd))

-----------------------------------------------------------------------------

\* What a target holds when all went well.
Right(a) ==
  IF a[2] = "tsan11" \/ a[1] \in {"llvm_patched", "llvm_patched_build"} THEN "patched" ELSE "plain"

TypeOK ==
  /\ disk \in [File -> Content]
  /\ \A i \in DOMAIN todo :
       todo[i] \in Target \X {"call", "wget", "unpack", "open", "fill", "patch"}
  /\ asked \in DOMAIN Script \cup {"none"}
  /\ failed \in Target \cup {None}
  /\ failures \in 0..MaxFailures
  /\ left \subseteq {a \in Target : Remakes(a)}

\* The results of a directory that the user once left torn: nothing tells them from
\* others.
OfLeft(a) == \E n \in Range(Needs(a)) : n \in left

\* A target is skipped because its file exists: it is then complete, and made with
\* the right sources, or it is the results of programs of which one was cut short
\* and left so. In particular no LLVM is taken for patched that is not.
SkippedIsRight ==
  todo # << >> /\ Head(todo)[2] = "call" =>
    LET a == Head(todo)[1] IN
    Skips(a) => disk[a] = Right(a) \/ (disk[a] = "partial" /\ OfLeft(a))

\* The results in the file of a configuration are of programs its compiler built.
ResultsAreRight ==
  \A c \in Configs, kind \in {"bench_results", "litmus_results"} :
    disk[<<kind, c>>] \in {"absent", "partial", Right(<<kind, c>>)}

\* A command starts only when all that it needs is there and complete, and its own
\* directory has no file cut short, so that it can fail for no reason of the
\* script's own: the order of the calls in tsan11.py is right. The exception is a
\* torn directory that the user has left: the script works in it and with it.
InputsAreRight ==
  todo # << >> /\ Head(todo)[2] # "call" =>
    LET a == Head(todo)[1]
        step == Head(todo)[2]
        TornAndLeft(f) == disk[f] = "torn" /\ f \in left IN
    /\ CanDo(a, step)
    /\ disk[a] = "torn" => a \in left
    /\ step = "fill" => \A n \in Range(Needs(a)) : disk[n] = Right(n) \/ TornAndLeft(n)

\* A command that the user repeats, cleaning up after each failure, succeeds in the
\* end, and then all it is for is there; unless they have once left a directory that
\* is not skipped with a file cut short in it: then it may fail for ever.
CommandsComplete ==
  \A cmd \in DOMAIN Script :
    asked = cmd ~>
      \/ asked = "none" /\ \A i \in DOMAIN Script[cmd] :
                             disk[Script[cmd][i][1]] = Right(Script[cmd][i][1])
      \/ left # {}
=============================================================================
