------------------------- MODULE BuildPipelineProofs -------------------------
(***************************************************************************)
(* What a file of the build script holds, proved for any number of         *)
(* failures: the types, that what is skipped is complete and rightly made, *)
(* and that the results are those of the compiler they are named after.    *)
(***************************************************************************)
EXTENDS BuildPipeline, TLAPS

Step == {"call", "wget", "unpack", "open", "fill", "patch"}

\* What the commands before the last one make of a target: the copy of LLVM that
\* is to be patched is not patched yet.
Built(a) == IF a[1] = "llvm_patched" THEN "plain" ELSE Right(a)

\* The command that comes after step, and the one before it.
After(a, step) ==
  CASE step = "wget" -> "unpack"
    [] step = "open" -> "fill"
    [] step = "fill" /\ a[1] = "llvm_patched" -> "patch"
    [] OTHER -> "none"

\* What a command other than the first of its target finds.
Found(a, step) ==
  /\ step = "unpack" => disk[Archive(a)] = "plain"
  /\ step = "fill" => disk[a] = "partial" \/ (Remakes(a) /\ disk[a] \in {"torn", Right(a)})
  /\ step = "patch" => disk[a] = "plain"

\* The stack holds the commands of a target together and in order: a command other
\* than the first one stands behind the one before it, unless that one is over ...
InOrder ==
  \A i \in DOMAIN todo :
    /\ After(todo[i][1], todo[i][2]) # "none" =>
         /\ i + 1 \in DOMAIN todo
         /\ todo[i + 1] = <<todo[i][1], After(todo[i][1], todo[i][2])>>
    /\ todo[i][2] \in {"unpack", "fill", "patch"} =>
         \/ i = 1 /\ Found(todo[1][1], todo[1][2])
         \/ /\ i > 1
            /\ todo[i - 1][1] = todo[i][1]
            /\ After(todo[i - 1][1], todo[i - 1][2]) = todo[i][2]

\* What a command may be given: it is right, or the user left it with a file cut short.
Usable(n) == disk[n] = Right(n) \/ (disk[n] = "torn" /\ n \in left)

\* ... and behind all that its target needs and that is not there yet.
NeedsComeFirst ==
  \A i \in DOMAIN todo : todo[i][2] # "call" =>
    \A n \in Range(Needs(todo[i][1])) :
      Usable(n) \/ \E j \in 1..(i - 1) : todo[j][1] = n

\* What a target may hold when nothing works on it: make's directories may lack
\* files, which are made again, and a file cut short in one that the user has left
\* stays and spoils the results.
AtRest(a) ==
  \/ disk[a] \in {"absent", Right(a)}
  \/ (Remakes(a) /\ disk[a] \in {"partial", "torn"})
  \/ (disk[a] = "partial" /\ OfLeft(a))

\* A target holds something else only while its commands run, or until the user has
\* removed it.
Settled ==
  \A a \in Target :
    /\ disk[a] \in {"absent", "partial", "torn", Built(a), Right(a)}
    /\ disk[a] = "torn" => Remakes(a) /\ (failed = a \/ a \in left)
    /\ \/ AtRest(a)
       \/ failed = a
       \/ todo # << >> /\ Head(todo) \in {<<a, "fill">>, <<a, "patch">>}

\* So does an archive.
ArchivesSettled ==
  \A a \in Target : Archive(a) \in File =>
    \/ disk[Archive(a)] \in {"absent", "plain"}
    \/ disk[Archive(a)] = "partial" /\ failed = a

StackTyped ==
  /\ todo \in Seq(Target \X Step)
  /\ \A i \in DOMAIN todo : todo[i][2] = "call" \/ todo[i][2] \in Range(Body(todo[i][1]))
  /\ failed # None => todo = << >>

\* The inductive invariant.
IInv == TypeOK /\ StackTyped /\ InOrder /\ NeedsComeFirst /\ Settled /\ ArchivesSettled

-----------------------------------------------------------------------------

\* A target is a pair of a name and a configuration.
LEMMA TargetPair ==
  ASSUME NEW a \in Target
  PROVE  /\ a = <<a[1], a[2]>>
         /\ (a[1] \in Common /\ a[2] = "all") \/ (a[1] \in PerConfig /\ a[2] \in Configs)
BY DEF Target, Common, PerConfig, Configs

\* The members of short sequences.
LEMMA ShortRanges ==
  /\ Range(<< >>) = {}
  /\ \A x : Range(<<x>>) = {x}
  /\ \A x, y : Range(<<x, y>>) = {x, y}
  /\ \A x, y, z : Range(<<x, y, z>>) = {x, y, z}
BY DEF Range

\* Short sequences of members of S are sequences over S.
LEMMA ShortSeqs ==
  ASSUME NEW S
  PROVE  /\ << >> \in Seq(S)
         /\ \A x \in S : <<x>> \in Seq(S)
         /\ \A x, y \in S : <<x, y>> \in Seq(S)
         /\ \A x, y, z \in S : <<x, y, z>> \in Seq(S)
OBVIOUS

\* Needs, name by name: what a target of this name calls.
LEMMA NeedsCases ==
  ASSUME NEW a \in Target
  PROVE  \/ /\ a = All("llvm_build")
            /\ Needs(a) = <<All("llvm"), All("ninja"), All("cmake")>>
         \/ a = All("llvm_patched") /\ Needs(a) = <<All("llvm")>>
         \/ /\ a = All("llvm_patched_build")
            /\ Needs(a) = <<All("llvm_patched"), All("ninja"), All("cmake")>>
         \/ a = All("cdschecker_build") /\ Needs(a) = <<All("cdschecker")>>
         \/ a = All("cdschecker_results") /\ Needs(a) = <<All("cdschecker_build")>>
         \/ a = All("chromium") /\ Needs(a) = <<All("depot_tools")>>
         \/ /\ a[1] \in {"ninja", "cmake", "llvm", "cdschecker", "firefox", "depot_tools"}
            /\ a[2] = "all"
            /\ Needs(a) = << >>
         \/ /\ a[1] \in {"bench_build", "litmus_build"}
            /\ a[2] \in Configs
            /\ Needs(a) = <<Compiler(a[2])>>
         \/ a[1] = "bench_results" /\ a[2] \in Configs /\ Needs(a) = <<<<"bench_build", a[2]>>>>
         \/ a[1] = "litmus_results" /\ a[2] \in Configs /\ Needs(a) = <<<<"litmus_build", a[2]>>>>
         \/ /\ a[1] = "firefox_build"
            /\ a[2] \in Configs
            /\ Needs(a) = <<All("firefox"), Compiler(a[2])>>
         \/ /\ a[1] = "chromium_build"
            /\ a[2] \in Configs
            /\ Needs(a) = <<Compiler(a[2]), All("chromium")>>
<1> DEFINE n == a[1]
           c == a[2]
<1>1. a = <<n, c>> /\ ((n \in Common /\ c = "all") \/ (n \in PerConfig /\ c \in Configs))
  BY TargetPair
<1>2. CASE n = "llvm_build"
  BY <1>1, <1>2 DEF Needs, All, PerConfig
<1>3. CASE n = "llvm_patched"
  BY <1>1, <1>3 DEF Needs, All, PerConfig
<1>4. CASE n = "llvm_patched_build"
  BY <1>1, <1>4 DEF Needs, All, PerConfig
<1>5. CASE n = "cdschecker_build"
  BY <1>1, <1>5 DEF Needs, All, PerConfig
<1>6. CASE n = "cdschecker_results"
  BY <1>1, <1>6 DEF Needs, All, PerConfig
<1>7. CASE n = "chromium"
  BY <1>1, <1>7 DEF Needs, All, PerConfig
<1>8. CASE n \in {"ninja", "cmake", "llvm", "cdschecker", "firefox", "depot_tools"}
  BY <1>1, <1>8 DEF Needs, PerConfig
<1>9. CASE n = "bench_build"
  BY <1>1, <1>9 DEF Needs, All, Common
<1>10. CASE n = "litmus_build"
  BY <1>1, <1>10 DEF Needs, All, Common
<1>11. CASE n = "bench_results"
  BY <1>1, <1>11 DEF Needs, All, Common
<1>12. CASE n = "litmus_results"
  BY <1>1, <1>12 DEF Needs, All, Common
<1>13. CASE n = "firefox_build"
  BY <1>1, <1>13 DEF Needs, All, Common
<1>14. CASE n = "chromium_build"
  BY <1>1, <1>14 DEF Needs, All, Common
<1> QED
  BY <1>1, <1>2, <1>3, <1>4, <1>5, <1>6, <1>7, <1>8, <1>9, <1>10, <1>11, <1>12, <1>13, <1>14 DEF Common, PerConfig

\* What a target needs are targets, and not the target itself.
LEMMA NeedsTyped ==
  ASSUME NEW a \in Target
  PROVE  /\ Needs(a) \in Seq(Target)
         /\ a \notin Range(Needs(a))
<1>1. \A name \in Common : All(name) \in Target
  BY DEF All, Target
<1>2. \A name \in PerConfig, c \in Configs : <<name, c>> \in Target
  BY DEF Target
<1>3. \A c \in Configs : /\ Compiler(c) \in Target
                         /\ Compiler(c) \in {All("llvm_build"), All("llvm_patched_build")}
  BY <1>1 DEF Compiler, Common
<1>4. /\ \A name \in {"ninja", "cmake", "llvm", "cdschecker", "firefox", "depot_tools",
                      "llvm_patched", "cdschecker_build"} : All(name) \in Target
      /\ \A name \in {"bench_build", "litmus_build"}, c \in Configs : <<name, c>> \in Target
  BY <1>1, <1>2 DEF Common, PerConfig
<1>5. Needs(a) \in Seq(Target)
  <2>1. /\ << >> \in Seq(Target)
        /\ \A name \in {"llvm", "cdschecker", "cdschecker_build", "depot_tools"} :
             <<All(name)>> \in Seq(Target)
        /\ \A name \in {"llvm", "llvm_patched"} :
             <<All(name), All("ninja"), All("cmake")>> \in Seq(Target)
    BY <1>4, ShortSeqs
  <2>2. \A c \in Configs : /\ <<Compiler(c)>> \in Seq(Target)
                           /\ <<<<"bench_build", c>>>> \in Seq(Target)
                           /\ <<<<"litmus_build", c>>>> \in Seq(Target)
                           /\ <<All("firefox"), Compiler(c)>> \in Seq(Target)
                           /\ <<Compiler(c), All("chromium")>> \in Seq(Target)
    BY <1>1, <1>3, <1>4, ShortSeqs DEF Common
  <2> QED
    BY <2>1, <2>2, NeedsCases
<1>6. a \notin Range(Needs(a))
  <2>1. \A name1, name2 : All(name1) = All(name2) <=> name1 = name2
    BY DEF All
  <2>2. CASE /\ a = All("llvm_build")
             /\ Needs(a) = <<All("llvm"), All("ninja"), All("cmake")>>
    <3>1. Range(Needs(a)) = {All("llvm"), All("ninja"), All("cmake")}
      BY <2>2, ShortRanges
    <3> QED
      BY <2>2, <3>1, <2>1, <1>3 DEF All
  <2>3. CASE /\ a = All("llvm_patched")
             /\ Needs(a) = <<All("llvm")>>
    <3>1. Range(Needs(a)) = {All("llvm")}
      BY <2>3, ShortRanges
    <3> QED
      BY <2>3, <3>1, <2>1, <1>3 DEF All
  <2>4. CASE /\ a = All("llvm_patched_build")
             /\ Needs(a) = <<All("llvm_patched"), All("ninja"), All("cmake")>>
    <3>1. Range(Needs(a)) = {All("llvm_patched"), All("ninja"), All("cmake")}
      BY <2>4, ShortRanges
    <3> QED
      BY <2>4, <3>1, <2>1, <1>3 DEF All
  <2>5. CASE /\ a = All("cdschecker_build")
             /\ Needs(a) = <<All("cdschecker")>>
    <3>1. Range(Needs(a)) = {All("cdschecker")}
      BY <2>5, ShortRanges
    <3> QED
      BY <2>5, <3>1, <2>1, <1>3 DEF All
  <2>6. CASE /\ a = All("cdschecker_results")
             /\ Needs(a) = <<All("cdschecker_build")>>
    <3>1. Range(Needs(a)) = {All("cdschecker_build")}
      BY <2>6, ShortRanges
    <3> QED
      BY <2>6, <3>1, <2>1, <1>3 DEF All
  <2>7. CASE /\ a = All("chromium")
             /\ Needs(a) = <<All("depot_tools")>>
    <3>1. Range(Needs(a)) = {All("depot_tools")}
      BY <2>7, ShortRanges
    <3> QED
      BY <2>7, <3>1, <2>1, <1>3 DEF All
  <2>8. CASE /\ a[1] \in {"ninja", "cmake", "llvm", "cdschecker", "firefox", "depot_tools"}
             /\ a[2] = "all" /\ Needs(a) = << >>
    <3>1. Range(Needs(a)) = {}
      BY <2>8, ShortRanges
    <3> QED
      BY <2>8, <3>1, <2>1, <1>3 DEF All
  <2>9. CASE /\ a[1] \in {"bench_build", "litmus_build"} /\ a[2] \in Configs
             /\ Needs(a) = <<Compiler(a[2])>>
    <3>1. Range(Needs(a)) = {Compiler(a[2])}
      BY <2>9, ShortRanges
    <3> QED
      BY <2>9, <3>1, <2>1, <1>3 DEF All
  <2>10. CASE /\ a[1] = "bench_results" /\ a[2] \in Configs
              /\ Needs(a) = <<<<"bench_build", a[2]>>>>
    <3>1. Range(Needs(a)) = {<<"bench_build", a[2]>>}
      BY <2>10, ShortRanges
    <3> QED
      BY <2>10, <3>1, <2>1, <1>3 DEF All
  <2>11. CASE /\ a[1] = "litmus_results" /\ a[2] \in Configs
              /\ Needs(a) = <<<<"litmus_build", a[2]>>>>
    <3>1. Range(Needs(a)) = {<<"litmus_build", a[2]>>}
      BY <2>11, ShortRanges
    <3> QED
      BY <2>11, <3>1, <2>1, <1>3 DEF All
  <2>12. CASE /\ a[1] = "firefox_build" /\ a[2] \in Configs
              /\ Needs(a) = <<All("firefox"), Compiler(a[2])>>
    <3>1. Range(Needs(a)) = {All("firefox"), Compiler(a[2])}
      BY <2>12, ShortRanges
    <3> QED
      BY <2>12, <3>1, <2>1, <1>3 DEF All
  <2>13. CASE /\ a[1] = "chromium_build" /\ a[2] \in Configs
              /\ Needs(a) = <<Compiler(a[2]), All("chromium")>>
    <3>1. Range(Needs(a)) = {Compiler(a[2]), All("chromium")}
      BY <2>13, ShortRanges
    <3> QED
      BY <2>13, <3>1, <2>1, <1>3 DEF All
  <2> QED
    BY NeedsCases, <2>2, <2>3, <2>4, <2>5, <2>6, <2>7, <2>8, <2>9, <2>10, <2>11, <2>12, <2>13
<1> QED
  BY <1>5, <1>6

\* Nothing needs results, and only results are made from what make fills.
LEMMA NeedsOfResults ==
  ASSUME NEW a \in Target, NEW n \in Range(Needs(a))
  PROVE  /\ n[1] \notin {"bench_results", "litmus_results"}
         /\ Remakes(n) => a[1] \in {"bench_results", "litmus_results"}
<1>1. \A name : All(name)[1] = name
  BY DEF All
<1>2. \A c \in Configs : Compiler(c)[1] \in {"llvm_build", "llvm_patched_build"}
  BY <1>1 DEF Compiler
<1>3. CASE /\ a = All("llvm_build")
             /\ Needs(a) = <<All("llvm"), All("ninja"), All("cmake")>>
  <2>1. Range(Needs(a)) = {All("llvm"), All("ninja"), All("cmake")}
    BY <1>3, ShortRanges
  <2> QED
    BY <2>1, <1>1, <1>2, <1>3 DEF Remakes
<1>4. CASE /\ a = All("llvm_patched")
             /\ Needs(a) = <<All("llvm")>>
  <2>1. Range(Needs(a)) = {All("llvm")}
    BY <1>4, ShortRanges
  <2> QED
    BY <2>1, <1>1, <1>2, <1>4 DEF Remakes
<1>5. CASE /\ a = All("llvm_patched_build")
             /\ Needs(a) = <<All("llvm_patched"), All("ninja"), All("cmake")>>
  <2>1. Range(Needs(a)) = {All("llvm_patched"), All("ninja"), All("cmake")}
    BY <1>5, ShortRanges
  <2> QED
    BY <2>1, <1>1, <1>2, <1>5 DEF Remakes
<1>6. CASE /\ a = All("cdschecker_build")
             /\ Needs(a) = <<All("cdschecker")>>
  <2>1. Range(Needs(a)) = {All("cdschecker")}
    BY <1>6, ShortRanges
  <2> QED
    BY <2>1, <1>1, <1>2, <1>6 DEF Remakes
<1>7. CASE /\ a = All("cdschecker_results")
             /\ Needs(a) = <<All("cdschecker_build")>>
  <2>1. Range(Needs(a)) = {All("cdschecker_build")}
    BY <1>7, ShortRanges
  <2> QED
    BY <2>1, <1>1, <1>2, <1>7 DEF Remakes
<1>8. CASE /\ a = All("chromium")
             /\ Needs(a) = <<All("depot_tools")>>
  <2>1. Range(Needs(a)) = {All("depot_tools")}
    BY <1>8, ShortRanges
  <2> QED
    BY <2>1, <1>1, <1>2, <1>8 DEF Remakes
<1>9. CASE /\ a[1] \in {"ninja", "cmake", "llvm", "cdschecker", "firefox", "depot_tools"}
             /\ a[2] = "all"
             /\ Needs(a) = << >>
  <2>1. Range(Needs(a)) = {}
    BY <1>9, ShortRanges
  <2> QED
    BY <2>1, <1>1, <1>2, <1>9 DEF Remakes
<1>10. CASE /\ a[1] \in {"bench_build", "litmus_build"}
             /\ a[2] \in Configs
             /\ Needs(a) = <<Compiler(a[2])>>
  <2>1. Range(Needs(a)) = {Compiler(a[2])}
    BY <1>10, ShortRanges
  <2> QED
    BY <2>1, <1>1, <1>2, <1>10 DEF Remakes
<1>11. CASE /\ a[1] \in {"bench_results", "litmus_results"}
              /\ \/ Needs(a) = <<<<"bench_build", a[2]>>>>
                 \/ Needs(a) = <<<<"litmus_build", a[2]>>>>
  <2>1. Range(Needs(a)) = {<<"bench_build", a[2]>>} \/ Range(Needs(a)) = {<<"litmus_build", a[2]>>}
    BY <1>11, ShortRanges
  <2> QED
    BY <2>1, <1>11
<1>12. CASE /\ a[1] = "firefox_build"
              /\ a[2] \in Configs
              /\ Needs(a) = <<All("firefox"), Compiler(a[2])>>
  <2>1. Range(Needs(a)) = {All("firefox"), Compiler(a[2])}
    BY <1>12, ShortRanges
  <2> QED
    BY <2>1, <1>1, <1>2, <1>12 DEF Remakes
<1>13. CASE /\ a[1] = "chromium_build"
              /\ a[2] \in Configs
              /\ Needs(a) = <<Compiler(a[2]), All("chromium")>>
  <2>1. Range(Needs(a)) = {Compiler(a[2]), All("chromium")}
    BY <1>13, ShortRanges
  <2> QED
    BY <2>1, <1>1, <1>2, <1>13 DEF Remakes
<1> QED
  BY NeedsCases, <1>3, <1>4, <1>5, <1>6, <1>7, <1>8, <1>9, <1>10, <1>11, <1>12, <1>13

\* So what is needed is never spoilt by what the user left.
LEMMA NeededIsNotOfLeft ==
  ASSUME TypeOK, NEW a \in Target, NEW n \in Range(Needs(a)), n \in Target
  PROVE  ~OfLeft(n)
<1>1. \A m \in left : Remakes(m)
  BY DEF TypeOK
<1>2. \A m \in Range(Needs(n)) : ~Remakes(m)
  BY NeedsOfResults
<1> QED
  BY <1>1, <1>2 DEF OfLeft

\* The commands of a target: one, two or three, the first of them first.
LEMMA BodyCases ==
  ASSUME NEW a \in Target
  PROVE  \/ a[1] \in {"ninja", "cmake"} /\ Body(a) = <<"wget", "unpack">>
         \/ a[1] = "llvm_patched" /\ Body(a) = <<"open", "fill", "patch">>
         \/ a[1] \notin {"ninja", "cmake", "llvm_patched"} /\ Body(a) = <<"open", "fill">>
BY DEF Body

\* From rightly made inputs a command makes the right thing.
LEMMA MadeRight ==
  ASSUME NEW a \in Target, a[1] \notin {"ninja", "cmake"},
         \A n \in Range(Needs(a)) : disk[n] = Right(n)
  PROVE  Made(Range(Needs(a))) = Built(a)
<1>1. \A name, c : Right(<<name, c>>) =
                    IF c = "tsan11" \/ name \in {"llvm_patched", "llvm_patched_build"}
                    THEN "patched" ELSE "plain"
  BY DEF Right
<1>2. \A n \in Range(Needs(a)) : disk[n] \notin {"partial", "torn"}
  BY DEF Right
<1>3. Made(Range(Needs(a))) =
        IF \E n \in Range(Needs(a)) : Right(n) = "patched" THEN "patched" ELSE "plain"
  BY <1>2 DEF Made
<1>4. Built(a) = IF a[1] = "llvm_patched" THEN "plain"
                 ELSE IF a[2] = "tsan11" \/ a[1] = "llvm_patched_build" THEN "patched" ELSE "plain"
  BY DEF Built, Right
<1>5. (\E n \in Range(Needs(a)) : Right(n) = "patched") <=> Built(a) = "patched"
  <2>1. \A name : Right(All(name)) = IF name \in {"llvm_patched", "llvm_patched_build"}
                                    THEN "patched" ELSE "plain"
    BY <1>1 DEF All
  <2>2. CASE /\ a = All("llvm_build")
             /\ Needs(a) = <<All("llvm"), All("ninja"), All("cmake")>>
    <3>1. Range(Needs(a)) = {All("llvm"), All("ninja"), All("cmake")}
      BY <2>2, ShortRanges
    <3> QED
      BY <2>2, <3>1, <1>1, <2>1, <1>4 DEF All, Compiler, Configs
  <2>3. CASE /\ a = All("llvm_patched")
             /\ Needs(a) = <<All("llvm")>>
    <3>1. Range(Needs(a)) = {All("llvm")}
      BY <2>3, ShortRanges
    <3> QED
      BY <2>3, <3>1, <1>1, <2>1, <1>4 DEF All, Compiler, Configs
  <2>4. CASE /\ a = All("llvm_patched_build")
             /\ Needs(a) = <<All("llvm_patched"), All("ninja"), All("cmake")>>
    <3>1. Range(Needs(a)) = {All("llvm_patched"), All("ninja"), All("cmake")}
      BY <2>4, ShortRanges
    <3> QED
      BY <2>4, <3>1, <1>1, <2>1, <1>4 DEF All, Compiler, Configs
  <2>5. CASE /\ a = All("cdschecker_build")
             /\ Needs(a) = <<All("cdschecker")>>
    <3>1. Range(Needs(a)) = {All("cdschecker")}
      BY <2>5, ShortRanges
    <3> QED
      BY <2>5, <3>1, <1>1, <2>1, <1>4 DEF All, Compiler, Configs
  <2>6. CASE /\ a = All("cdschecker_results")
             /\ Needs(a) = <<All("cdschecker_build")>>
    <3>1. Range(Needs(a)) = {All("cdschecker_build")}
      BY <2>6, ShortRanges
    <3> QED
      BY <2>6, <3>1, <1>1, <2>1, <1>4 DEF All, Compiler, Configs
  <2>7. CASE /\ a = All("chromium")
             /\ Needs(a) = <<All("depot_tools")>>
    <3>1. Range(Needs(a)) = {All("depot_tools")}
      BY <2>7, ShortRanges
    <3> QED
      BY <2>7, <3>1, <1>1, <2>1, <1>4 DEF All, Compiler, Configs
  <2>8. CASE /\ a[1] \in {"ninja", "cmake", "llvm", "cdschecker", "firefox", "depot_tools"}
             /\ a[2] = "all" /\ Needs(a) = << >>
    <3>1. Range(Needs(a)) = {}
      BY <2>8, ShortRanges
    <3> QED
      BY <2>8, <3>1, <1>1, <2>1, <1>4 DEF All, Compiler, Configs
  <2>9. CASE /\ a[1] \in {"bench_build", "litmus_build"} /\ a[2] \in Configs
             /\ Needs(a) = <<Compiler(a[2])>>
    <3>1. Range(Needs(a)) = {Compiler(a[2])}
      BY <2>9, ShortRanges
    <3> QED
      BY <2>9, <3>1, <1>1, <2>1, <1>4 DEF All, Compiler, Configs
  <2>10. CASE /\ a[1] = "bench_results" /\ a[2] \in Configs
              /\ Needs(a) = <<<<"bench_build", a[2]>>>>
    <3>1. Range(Needs(a)) = {<<"bench_build", a[2]>>}
      BY <2>10, ShortRanges
    <3> QED
      BY <2>10, <3>1, <1>1, <2>1, <1>4 DEF All, Compiler, Configs
  <2>11. CASE /\ a[1] = "litmus_results" /\ a[2] \in Configs
              /\ Needs(a) = <<<<"litmus_build", a[2]>>>>
    <3>1. Range(Needs(a)) = {<<"litmus_build", a[2]>>}
      BY <2>11, ShortRanges
    <3> QED
      BY <2>11, <3>1, <1>1, <2>1, <1>4 DEF All, Compiler, Configs
  <2>12. CASE /\ a[1] = "firefox_build" /\ a[2] \in Configs
              /\ Needs(a) = <<All("firefox"), Compiler(a[2])>>
    <3>1. Range(Needs(a)) = {All("firefox"), Compiler(a[2])}
      BY <2>12, ShortRanges
    <3> QED
      BY <2>12, <3>1, <1>1, <2>1, <1>4 DEF All, Compiler, Configs
  <2>13. CASE /\ a[1] = "chromium_build" /\ a[2] \in Configs
              /\ Needs(a) = <<Compiler(a[2]), All("chromium")>>
    <3>1. Range(Needs(a)) = {Compiler(a[2]), All("chromium")}
      BY <2>13, ShortRanges
    <3> QED
      BY <2>13, <3>1, <1>1, <2>1, <1>4 DEF All, Compiler, Configs
  <2> QED
    BY NeedsCases, <2>2, <2>3, <2>4, <2>5, <2>6, <2>7, <2>8, <2>9, <2>10, <2>11, <2>12, <2>13
<1>6. Built(a) \in {"plain", "patched"}
  BY <1>4
<1> QED
  BY <1>3, <1>5, <1>6

-----------------------------------------------------------------------------

\* What a sequence is made of ...
LEMMA SeqParts ==
  ASSUME NEW S, NEW s \in Seq(S)
  PROVE  /\ Len(s) \in Nat
         /\ DOMAIN s = 1..Len(s)
         /\ \A i \in 1..Len(s) : s[i] \in S
<1>1. Len(s) \in Nat
  OBVIOUS
<1>2. DOMAIN s = 1..Len(s)
  OBVIOUS
<1>3. \A i \in 1..Len(s) : s[i] \in S
  OBVIOUS
<1> QED
  BY <1>1, <1>2, <1>3

\* ... what the elements of a concatenation are ...
LEMMA ConcatParts ==
  ASSUME NEW S, NEW s \in Seq(S), NEW r \in Seq(S)
  PROVE  /\ s \o r \in Seq(S)
         /\ Len(s \o r) = Len(s) + Len(r)
         /\ \A i \in 1..Len(s) : (s \o r)[i] = s[i]
         /\ \A i \in (Len(s) + 1)..(Len(s) + Len(r)) : (s \o r)[i] = r[i - Len(s)]
<1>1. s \o r \in Seq(S) /\ Len(s \o r) = Len(s) + Len(r)
  OBVIOUS
<1>2. \A i \in 1..Len(s) : (s \o r)[i] = s[i]
  OBVIOUS
<1>3. \A i \in (Len(s) + 1)..(Len(s) + Len(r)) : (s \o r)[i] = r[i - Len(s)]
  OBVIOUS
<1> QED
  BY <1>1, <1>2, <1>3

\* ... and what is left without the first one.
LEMMA TailParts ==
  ASSUME NEW S, NEW s \in Seq(S), s # << >>
  PROVE  /\ Len(s) \in Nat \ {0}
         /\ Head(s) = s[1]
         /\ Tail(s) \in Seq(S)
         /\ Len(Tail(s)) = Len(s) - 1
         /\ \A i \in 1..Len(Tail(s)) : Tail(s)[i] = s[i + 1]
<1>1. Len(s) \in Nat \ {0} /\ Head(s) = s[1] /\ Tail(s) \in Seq(S) /\ Len(Tail(s)) = Len(s) - 1
  OBVIOUS
<1>2. \A i \in 1..Len(Tail(s)) : Tail(s)[i] = s[i + 1]
  OBVIOUS
<1> QED
  BY <1>1, <1>2

\* Calls keeps the targets in their order.
LEMMA CallsTyped ==
  ASSUME NEW ts \in Seq(Target)
  PROVE  /\ Calls(ts) \in Seq(Target \X {"call"})
         /\ Len(Calls(ts)) = Len(ts)
         /\ \A i \in 1..Len(ts) : Calls(ts)[i] = <<ts[i], "call">>
<1>1. Len(ts) \in Nat /\ DOMAIN ts = 1..Len(ts) /\ \A i \in 1..Len(ts) : ts[i] \in Target
  BY SeqParts
<1>2. Calls(ts) = [i \in 1..Len(ts) |-> <<ts[i], "call">>]
  BY <1>1 DEF Calls
<1>3. \A i \in 1..Len(ts) : <<ts[i], "call">> \in Target \X {"call"}
  BY <1>1
<1> DEFINE n == Len(ts)
           entry(i) == <<ts[i], "call">>
<1>4. \A i \in 1..n : entry(i) \in Target \X {"call"}
  BY <1>3
<1> HIDE DEF n, entry
<1>5. n \in Nat
  BY <1>1 DEF n
<1>6. [i \in 1..n |-> entry(i)] \in Seq(Target \X {"call"})
  BY <1>4, <1>5
<1>7. /\ Len([i \in 1..n |-> entry(i)]) = n
      /\ \A i \in 1..n : [j \in 1..n |-> entry(j)][i] = entry(i)
  BY <1>5
<1> QED
  BY <1>2, <1>6, <1>7 DEF n, entry

\* What a command of the user calls: targets, and nothing but calls.
LEMMA ScriptTyped ==
  ASSUME NEW cmd \in DOMAIN Script
  PROVE  Script[cmd] \in Seq(Target \X {"call"})
<1>1. ASSUME NEW names \in {<<"bench_build", "litmus_build">>, <<"bench_results", "litmus_results">>,
                            <<"firefox_build">>, <<"chromium_build">>}
      PROVE  ForAll(names) \in Seq(Target \X {"call"})
  <2> DEFINE config(i) == <<"normal", "tsan", "tsan11">>[1 + ((i - 1) \div Len(names))]
             name(i) == names[1 + ((i - 1) % Len(names))]
  <2>1. Len(names) \in {1, 2} /\ \A i \in 1..Len(names) : names[i] \in PerConfig
    BY DEF PerConfig
  <2>2. ASSUME NEW i \in 1..(3 * Len(names)) PROVE <<name(i), config(i)>> \in Target
    <3>1. CASE Len(names) = 1
      <4>1. i \in {1, 2, 3} /\ (i - 1) % 1 = 0 /\ (i - 1) \div 1 = i - 1
        BY <2>2, <3>1
      <4> QED
        BY <2>1, <3>1, <4>1 DEF Target, Configs
    <3>2. CASE Len(names) = 2
      <4>1. /\ i \in 1..6
            /\ (i - 1) % 2 \in {0, 1}
            /\ (i - 1) \div 2 \in {0, 1, 2}
        BY <2>2, <3>2
      <4>2. names[1 + ((i - 1) % 2)] \in PerConfig
        BY <2>1, <3>2, <4>1
      <4>3. <<"normal", "tsan", "tsan11">>[1 + ((i - 1) \div 2)] \in Configs
        BY <4>1 DEF Configs
      <4> QED
        BY <3>2, <4>2, <4>3 DEF Target
    <3> QED
      BY <2>1, <3>1, <3>2
  <2>3. 3 * Len(names) \in Nat
    BY <2>1
  <2> DEFINE ts == [i \in 1..(3 * Len(names)) |-> <<name(i), config(i)>>]
  <2>4. ts \in Seq(Target) /\ DOMAIN ts = 1..(3 * Len(names))
    BY <2>2, <2>3
  <2> HIDE DEF ts
  <2>5. Calls(ts) \in Seq(Target \X {"call"})
    BY <2>4, CallsTyped
  <2>6. ForAll(names) = Calls(ts)
    BY Zenon DEF ForAll, ts
  <2> QED
    BY <2>5, <2>6
<1>2. Calls(<<All("cdschecker_build")>>) \in Seq(Target \X {"call"})
  BY DEF Calls, All, Target, Common
<1>3. Calls(<<All("cdschecker_results")>>) \in Seq(Target \X {"call"})
  BY DEF Calls, All, Target, Common
<1>4. /\ ForAll(<<"bench_build", "litmus_build">>) \in Seq(Target \X {"call"})
      /\ ForAll(<<"bench_results", "litmus_results">>) \in Seq(Target \X {"call"})
      /\ ForAll(<<"firefox_build">>) \in Seq(Target \X {"call"})
      /\ ForAll(<<"chromium_build">>) \in Seq(Target \X {"call"})
  BY <1>1
<1>5. \A p, q \in Seq(Target \X {"call"}) : p \o q \in Seq(Target \X {"call"})
  OBVIOUS
<1>6. /\ DOMAIN Script = {"build", "run", "build_firefox", "build_chromium"}
      /\ Script["build"] = ForAll(<<"bench_build", "litmus_build">>) \o Calls(<<All("cdschecker_build")>>)
      /\ Script["run"] = ForAll(<<"bench_results", "litmus_results">>) \o Calls(<<All("cdschecker_results")>>)
      /\ Script["build_firefox"] = ForAll(<<"firefox_build">>)
      /\ Script["build_chromium"] = ForAll(<<"chromium_build">>)
  BY DEF Script
<1> QED
  BY <1>2, <1>3, <1>4, <1>5, <1>6

\* The initial state: nothing is there, nothing is to do.
LEMMA InitHolds == Init => IInv
<1> SUFFICES ASSUME Init PROVE IInv
  OBVIOUS
<1>1. todo = << >> /\ DOMAIN todo = {} /\ todo \in Seq(Target \X Step)
  BY DEF Init
<1>2. \A a \in Target : a \in File
  BY DEF File
<1> QED
  BY <1>1, <1>2, FailuresAssumption
     DEF Init, IInv, TypeOK, StackTyped, InOrder, NeedsComeFirst, Settled, AtRest, ArchivesSettled,
         Content

\* Archives are no targets, and only two targets have one.
LEMMA ArchiveFacts ==
  /\ \A a \in Target : a \in File /\ Archive(a) \notin Target
  /\ \A a \in Target : Archive(a) \in File <=> a[1] \in {"ninja", "cmake"}
  /\ \A a, b \in Target : Archive(a) \in File /\ Archive(a) = Archive(b) => a = b
  /\ None \notin Target
<1>1. \A a \in Target : a \in File
  BY DEF File
<1>2. \A a \in Target : Archive(a) \notin Target
  BY DEF Archive, Target, Common, PerConfig
<1>3. \A a \in Target : Archive(a) \in File <=> a[1] \in {"ninja", "cmake"}
  <2>1. \A f : f \in {Archive(b) : b \in {<<"ninja", "all">>, <<"cmake", "all">>}} <=>
               f = Archive(<<"ninja", "all">>) \/ f = Archive(<<"cmake", "all">>)
    OBVIOUS
  <2> SUFFICES ASSUME NEW a \in Target PROVE Archive(a) \in File <=> a[1] \in {"ninja", "cmake"}
    OBVIOUS
  <2>2. Archive(a) \in File <=> Archive(a) \in {<<"archive of", "ninja">>, <<"archive of", "cmake">>}
    BY <1>2, <2>1 DEF File, Archive
  <2> QED
    BY <2>2 DEF Archive
<1>4. \A a, b \in Target : Archive(a) \in File /\ Archive(a) = Archive(b) => a = b
  <2> SUFFICES ASSUME NEW a \in Target, NEW b \in Target, a[1] \in {"ninja", "cmake"},
                      Archive(a) = Archive(b)
               PROVE  a = b
    BY <1>3
  <2>1. a[1] = b[1]
    BY DEF Archive
  <2>2. a = <<a[1], "all">> /\ b = <<b[1], "all">>
    BY <2>1, TargetPair DEF PerConfig
  <2> QED
    BY <2>1, <2>2
<1>5. None \notin Target
  BY DEF None, Target, Common, PerConfig
<1> QED
  BY <1>1, <1>2, <1>3, <1>4, <1>5

\* What make fills has no archive and is not patched.
LEMMA RemakesFacts ==
  ASSUME NEW a \in Target
  PROVE  /\ Right(a) \in {"plain", "patched"}
         /\ Built(a) \in {"plain", "patched"}
         /\ a[1] # "llvm_patched" => Built(a) = Right(a)
         /\ Remakes(a) => a[1] \notin {"ninja", "cmake", "llvm_patched"}
         /\ a[1] \in {"ninja", "cmake"} => Right(a) = "plain"
BY TargetPair DEF Remakes, Built, Right, PerConfig

\* An empty stack is in order.
LEMMA EmptyStack == todo = << >> => InOrder /\ NeedsComeFirst
<1>1. todo = << >> => DOMAIN todo = {}
  OBVIOUS
<1> QED
  BY <1>1 DEF InOrder, NeedsComeFirst

\* The user starts a command: nothing was under way, and nothing is touched.
LEMMA ExecuteKeeps ==
  ASSUME IInv, NEW cmd \in DOMAIN Script, Execute(cmd)
  PROVE  IInv'
<1>1. /\ todo' \in Seq(Target \X {"call"})
      /\ todo = << >> /\ failed = None /\ failed' = None
      /\ disk' = disk /\ failures' = failures /\ left' = left /\ asked' \in DOMAIN Script
  BY ScriptTyped DEF Execute
<1>2. /\ DOMAIN todo' = 1..Len(todo')
      /\ \A i \in 1..Len(todo') : todo'[i] \in Target \X {"call"}
  BY <1>1, SeqParts
<1>3. \A i \in DOMAIN todo' : todo'[i][1] \in Target /\ todo'[i][2] = "call" /\ todo'[i] \in Target \X Step
  BY <1>2 DEF Step
<1>4. todo' \in Seq(Target \X Step)
  <2>1. Target \X {"call"} \subseteq Target \X Step
    BY DEF Step
  <2> QED
    BY <1>1, <2>1
<1>5. StackTyped' /\ TypeOK'
  BY <1>1, <1>3, <1>4 DEF IInv, TypeOK, StackTyped, Step
<1>6. InOrder' /\ NeedsComeFirst'
  BY <1>3 DEF InOrder, NeedsComeFirst, After
<1>7. Settled' /\ ArchivesSettled'
  BY <1>1 DEF IInv, Settled, ArchivesSettled, AtRest, OfLeft, Built, Right, Remakes
<1> QED
  BY <1>5, <1>6, <1>7 DEF IInv

\* What is at rest stays so while its file does not change: the user may leave more.
LEMMA RestStays ==
  ASSUME NEW a \in Target, AtRest(a), disk'[a] = disk[a], left \subseteq left'
  PROVE  AtRest(a)'
<1>1. OfLeft(a) => OfLeft(a)'
  BY DEF OfLeft
<1> QED
  BY <1>1 DEF AtRest, Right, Remakes

\* The user removes what the failed command was to make: nothing half made stays, but
\* what make fills, which is made again, or recorded as left.
LEMMA CleanKeeps ==
  ASSUME IInv, Clean
  PROVE  IInv'
<1>1. /\ failed \in Target /\ failed # None /\ failed' = None
      /\ todo = << >> /\ todo' = << >>
      /\ asked' = asked /\ failures' = failures
  BY DEF IInv, TypeOK, StackTyped, Clean
<1>2. /\ left \subseteq left'
      /\ left' \in {left, left \cup {failed}}
      /\ left' # left => Remakes(failed)
      /\ \/ disk' = [f \in File |-> IF f \in {failed, Archive(failed)} \cap File
                                   THEN "absent" ELSE disk[f]]
         \/ /\ disk' = disk /\ Remakes(failed)
            /\ disk[failed] = "torn" => failed \in left'
  BY DEF Clean, Removes
<1>3. TypeOK'
  <2>1. disk' \in [File -> Content]
    BY <1>2 DEF IInv, TypeOK, Content
  <2>2. left' \subseteq {a \in Target : Remakes(a)}
    BY <1>1, <1>2 DEF IInv, TypeOK
  <2> QED
    BY <1>1, <2>1, <2>2 DEF IInv, TypeOK, Remakes
<1>4. StackTyped'
  BY <1>1 DEF IInv, StackTyped
<1>5. (InOrder /\ NeedsComeFirst)'
  <2>1. (todo = << >>)'
    BY <1>1
  <2> QED
    BY <2>1, EmptyStack, PTL
<1>6. Settled'
  <2> SUFFICES ASSUME NEW a \in Target
               PROVE  /\ disk'[a] \in {"absent", "partial", "torn", Built(a), Right(a)}
                      /\ disk'[a] = "torn" => Remakes(a) /\ a \in left'
                      /\ AtRest(a)'
    BY DEF Settled, Remakes, Built, Right
  <2>1. /\ disk[a] \in {"absent", "partial", "torn", Built(a), Right(a)}
        /\ disk[a] = "torn" => Remakes(a) /\ (failed = a \/ a \in left)
        /\ AtRest(a) \/ failed = a
    BY <1>1 DEF IInv, Settled
  <2>2. CASE disk'[a] = "absent"
    BY <2>2 DEF AtRest
  <2>3. CASE disk'[a] # "absent"
    <3>1. disk'[a] = disk[a]
      BY <1>2, <2>3, ArchiveFacts
    <3>2. CASE AtRest(a) /\ failed # a
      BY <1>2, <2>1, <3>1, <3>2, RestStays
    <3>3. CASE failed = a
      <4>1. Remakes(a) /\ (disk[a] = "torn" => a \in left')
        BY <1>2, <2>3, <3>3, ArchiveFacts
      <4>2. Built(a) = Right(a)
        BY <4>1, RemakesFacts
      <4> QED
        BY <2>1, <3>1, <4>1, <4>2 DEF AtRest, Right, Remakes
    <3> QED
      BY <2>1, <3>1, <3>2, <3>3
  <2> QED
    BY <2>1, <2>2, <2>3
<1>7. ArchivesSettled'
  <2> SUFFICES ASSUME NEW a \in Target, Archive(a) \in File
               PROVE  disk'[Archive(a)] \in {"absent", "plain"}
    BY DEF ArchivesSettled
  <2>1. CASE a # failed
    <3>1. Archive(a) # Archive(failed)
      BY <1>1, <2>1, ArchiveFacts
    <3>2. disk'[Archive(a)] = disk[Archive(a)] \/ disk'[Archive(a)] = "absent"
      BY <1>2
    <3> QED
      BY <2>1, <3>2 DEF IInv, ArchivesSettled
  <2>2. CASE a = failed
    <3>1. ~Remakes(a)
      BY ArchiveFacts, RemakesFacts
    <3> QED
      BY <1>2, <2>2, <3>1
  <2> QED
    BY <2>1, <2>2
<1> QED
  BY <1>3, <1>4, <1>5, <1>6, <1>7 DEF IInv

\* What is known of the command on top of the stack.
LEMMA TopFacts ==
  ASSUME IInv, todo # << >>
  PROVE  /\ failed = None
         /\ Len(todo) \in Nat \ {0}
         /\ 1 \in DOMAIN todo
         /\ Head(todo) = todo[1]
         /\ todo[1] \in Target \X Step
         /\ Tail(todo) \in Seq(Target \X Step)
         /\ Len(Tail(todo)) = Len(todo) - 1
         /\ \A i \in 1..Len(Tail(todo)) : Tail(todo)[i] = todo[i + 1]
         /\ DOMAIN todo = 1..Len(todo)
<1>1. todo \in Seq(Target \X Step) /\ failed = None
  BY DEF IInv, StackTyped
<1>2. /\ Len(todo) \in Nat \ {0}
      /\ Head(todo) = todo[1]
      /\ Tail(todo) \in Seq(Target \X Step)
      /\ Len(Tail(todo)) = Len(todo) - 1
      /\ \A i \in 1..Len(Tail(todo)) : Tail(todo)[i] = todo[i + 1]
  BY <1>1, TailParts
<1>3. /\ Len(todo) \in Nat
      /\ DOMAIN todo = 1..Len(todo)
      /\ \A i \in 1..Len(todo) : todo[i] \in Target \X Step
  BY <1>1, SeqParts
<1> QED
  BY <1>1, <1>2, <1>3

\* A command fails: what it leaves half done is its own target or archive, which the
\* user will remove.
LEMMA FailKeeps ==
  ASSUME IInv, Fail
  PROVE  IInv'
<1> DEFINE a == Head(todo)[1]
           step == Head(todo)[2]
<1>1. /\ todo # << >> /\ todo' = << >>
      /\ step # "call"
      /\ failures' = failures \/ (failures' = failures + 1 /\ failures < MaxFailures)
      /\ disk' \in {disk} \cup HalfDone(a, step)
      /\ failed' = a
      /\ asked' = asked /\ left' = left
  BY DEF Fail
<1>2. a \in Target /\ step \in Step /\ failed = None /\ Head(todo) = <<a, step>>
  BY <1>1, TopFacts
<1>3. \/ disk' = disk
      \/ (Archive(a) \in File /\ disk' = [disk EXCEPT ![Archive(a)] = "partial"])
      \/ disk' = [disk EXCEPT ![a] = "partial"]
      \/ (Remakes(a) /\ disk' = [disk EXCEPT ![a] = "torn"])
  <2>1. step = "wget" => Archive(a) \in File
    <3>1. step = "wget" => step \in Range(Body(a))
      BY <1>1, <1>2, TopFacts DEF IInv, StackTyped
    <3>2. "wget" \in Range(Body(a)) => a[1] \in {"ninja", "cmake"}
      BY <1>2, BodyCases, ShortRanges
    <3> QED
      BY <1>2, <3>1, <3>2, ArchiveFacts
  <2> QED
    BY <1>1, <2>1 DEF HalfDone
<1> HIDE DEF a, step
<1>4. \A f \in File : \/ disk'[f] = disk[f]
                       \/ (f \in {a, Archive(a)} /\ disk'[f] = "partial")
                       \/ (f = a /\ disk'[f] = "torn" /\ Remakes(a))
  BY <1>3 DEF IInv, TypeOK
<1>5. TypeOK'
  <2>1. failures' \in 0..MaxFailures
    BY <1>1, FailuresAssumption DEF IInv, TypeOK
  <2>2. disk' \in [File -> Content]
    BY <1>3 DEF IInv, TypeOK, Content
  <2> QED
    BY <1>1, <1>2, <2>1, <2>2 DEF IInv, TypeOK, Remakes
<1>6. StackTyped'
  BY <1>1 DEF StackTyped
<1>7. (InOrder /\ NeedsComeFirst)'
  <2>1. (todo = << >>)'
    BY <1>1
  <2> QED
    BY <2>1, EmptyStack, PTL
<1>8. Settled'
  <2> SUFFICES ASSUME NEW b \in Target
               PROVE  /\ disk'[b] \in {"absent", "partial", "torn", Built(b), Right(b)}
                      /\ disk'[b] = "torn" => Remakes(b) /\ (b = a \/ b \in left)
                      /\ AtRest(b)' \/ b = a
    BY <1>1 DEF Settled, Remakes, Built, Right
  <2>1. /\ b \in File /\ b # Archive(a)
        /\ disk[b] \in {"absent", "partial", "torn", Built(b), Right(b)}
        /\ disk[b] = "torn" => Remakes(b) /\ b \in left
    BY <1>2, ArchiveFacts DEF IInv, Settled
  <2>2. CASE b = a
    BY <1>4, <2>1, <2>2
  <2>3. CASE b # a
    <3>1. disk'[b] = disk[b]
      BY <1>4, <2>1, <2>3
    <3>2. AtRest(b)
      BY <1>2, <2>3, ArchiveFacts DEF IInv, Settled
    <3> QED
      BY <1>1, <2>1, <3>1, <3>2, RestStays
  <2> QED
    BY <2>2, <2>3
<1>9. ArchivesSettled'
  <2> SUFFICES ASSUME NEW b \in Target, Archive(b) \in File
               PROVE  \/ disk'[Archive(b)] \in {"absent", "plain"}
                      \/ disk'[Archive(b)] = "partial" /\ b = a
    BY <1>1 DEF ArchivesSettled
  <2>1. Archive(b) # a
    BY <1>2, ArchiveFacts
  <2>2. \/ disk'[Archive(b)] = disk[Archive(b)]
        \/ b = a /\ disk'[Archive(b)] = "partial"
    BY <1>2, <1>4, <2>1, ArchiveFacts
  <2>3. disk[Archive(b)] \in {"absent", "plain"}
    BY <1>2, ArchiveFacts DEF IInv, ArchivesSettled
  <2> QED
    BY <2>2, <2>3
<1> QED
  BY <1>5, <1>6, <1>7, <1>8, <1>9 DEF IInv

\* The commands of a target follow each other as After says.
LEMMA BodyOrder ==
  ASSUME NEW a \in Target
  PROVE  /\ Len(Body(a)) \in {2, 3}
         /\ \A k \in 1..Len(Body(a)) :
              /\ Body(a)[k] \in Range(Body(a))
              /\ Body(a)[k] \in Step \ {"call"}
              /\ k = 1 => Body(a)[k] \in {"wget", "open"}
              /\ k > 1 => After(a, Body(a)[k - 1]) = Body(a)[k]
              /\ k < Len(Body(a)) => After(a, Body(a)[k]) = Body(a)[k + 1]
              /\ k = Len(Body(a)) => After(a, Body(a)[k]) = "none"
<1>1. CASE a[1] \in {"ninja", "cmake"} /\ Body(a) = <<"wget", "unpack">>
  <2>1. 1..Len(Body(a)) = {1, 2} /\ Body(a)[1] = "wget" /\ Body(a)[2] = "unpack" /\ Len(Body(a)) = 2
    BY <1>1
  <2>2. After(a, "wget") = "unpack" /\ After(a, "unpack") = "none"
    BY DEF After
  <2> QED
    BY <1>1, <2>1, <2>2 DEF Range, Step
<1>2. CASE a[1] = "llvm_patched" /\ Body(a) = <<"open", "fill", "patch">>
  <2>1. /\ 1..Len(Body(a)) = {1, 2, 3} /\ Len(Body(a)) = 3
        /\ Body(a)[1] = "open" /\ Body(a)[2] = "fill" /\ Body(a)[3] = "patch"
    BY <1>2
  <2>2. After(a, "open") = "fill" /\ After(a, "fill") = "patch" /\ After(a, "patch") = "none"
    BY <1>2 DEF After
  <2> QED
    BY <1>2, <2>1, <2>2 DEF Range, Step
<1>3. CASE a[1] \notin {"ninja", "cmake", "llvm_patched"} /\ Body(a) = <<"open", "fill">>
  <2>1. 1..Len(Body(a)) = {1, 2} /\ Body(a)[1] = "open" /\ Body(a)[2] = "fill" /\ Len(Body(a)) = 2
    BY <1>3
  <2>2. After(a, "open") = "fill" /\ After(a, "fill") = "none"
    BY <1>3 DEF After
  <2> QED
    BY <1>3, <2>1, <2>2 DEF Range, Step
<1> QED
  BY BodyCases, <1>1, <1>2, <1>3

\* A target has a number of commands.
LEMMA BodyLength ==
  ASSUME NEW a \in Target PROVE Len(Body(a)) \in Nat
<1>1. Len(Body(a)) \in {2, 3}
  BY BodyOrder
<1> QED
  BY <1>1

\* What the call of a target puts on the stack: the calls of what it needs, then
\* its own commands.
LEMMA FrontFacts ==
  ASSUME NEW a \in Target, NEW front, front = Calls(Needs(a)) \o Commands(a)
  PROVE  /\ front \in Seq(Target \X Step)
         /\ Len(Needs(a)) \in Nat
         /\ Len(front) = Len(Needs(a)) + Len(Body(a))
         /\ \A i \in 1..Len(Needs(a)) : front[i] = <<Needs(a)[i], "call">> /\ Needs(a)[i] \in Target
         /\ \A k \in 1..Len(Body(a)) : front[Len(Needs(a)) + k] = <<a, Body(a)[k]>>
         /\ \A n \in Range(Needs(a)) : \E i \in 1..Len(Needs(a)) : front[i] = <<n, "call">>
<1>1. /\ Needs(a) \in Seq(Target)
      /\ Len(Needs(a)) \in Nat
      /\ DOMAIN Needs(a) = 1..Len(Needs(a))
      /\ \A i \in 1..Len(Needs(a)) : Needs(a)[i] \in Target
  BY NeedsTyped, SeqParts
<1> DEFINE calls == Calls(Needs(a))
           commands == Commands(a)
<1>2. /\ calls \in Seq(Target \X {"call"})
      /\ Len(calls) = Len(Needs(a))
      /\ \A i \in 1..Len(Needs(a)) : calls[i] = <<Needs(a)[i], "call">>
  BY <1>1, CallsTyped
<1>3. Target \X {"call"} \subseteq Target \X Step
  BY DEF Step
<1>4. calls \in Seq(Target \X Step)
  BY <1>2, <1>3
<1>5. /\ commands \in Seq(Target \X Step)
      /\ Len(commands) = Len(Body(a))
      /\ \A k \in 1..Len(Body(a)) : commands[k] = <<a, Body(a)[k]>>
  <2>1. CASE Body(a) = <<"wget", "unpack">>
    <3>1. commands = <<<<a, "wget">>, <<a, "unpack">>>>
      BY <2>1 DEF Commands
    <3> QED
      BY <2>1, <3>1 DEF Step
  <2>2. CASE Body(a) = <<"open", "fill", "patch">>
    <3>1. commands = <<<<a, "open">>, <<a, "fill">>, <<a, "patch">>>>
      BY <2>2 DEF Commands
    <3> QED
      BY <2>2, <3>1 DEF Step
  <2>3. CASE Body(a) = <<"open", "fill">>
    <3>1. commands = <<<<a, "open">>, <<a, "fill">>>>
      BY <2>3 DEF Commands
    <3> QED
      BY <2>3, <3>1 DEF Step
  <2> QED
    BY BodyCases, <2>1, <2>2, <2>3
<1> HIDE DEF calls, commands
<1>6. front = calls \o commands
  BY DEF calls, commands
<1>7. /\ front \in Seq(Target \X Step)
      /\ Len(front) = Len(calls) + Len(commands)
      /\ \A i \in 1..Len(calls) : front[i] = calls[i]
      /\ \A i \in (Len(calls) + 1)..(Len(calls) + Len(commands)) : front[i] = commands[i - Len(calls)]
  <2>1. /\ calls \o commands \in Seq(Target \X Step)
        /\ Len(calls \o commands) = Len(calls) + Len(commands)
        /\ \A i \in 1..Len(calls) : (calls \o commands)[i] = calls[i]
        /\ \A i \in (Len(calls) + 1)..(Len(calls) + Len(commands)) :
             (calls \o commands)[i] = commands[i - Len(calls)]
    BY <1>4, <1>5, ConcatParts
  <2> QED
    BY <1>6, <2>1
<1>8. ASSUME NEW k \in 1..Len(Body(a)) PROVE front[Len(Needs(a)) + k] = <<a, Body(a)[k]>>
  <2>1. Len(Body(a)) \in Nat
    BY BodyOrder
  <2>2. Len(Needs(a)) + k \in (Len(calls) + 1)..(Len(calls) + Len(commands))
    BY <1>1, <1>2, <1>5, <1>8, <2>1
  <2>3. (Len(Needs(a)) + k) - Len(calls) = k
    BY <1>1, <1>2, <2>1
  <2> QED
    BY <1>5, <1>7, <2>2, <2>3
<1>9. \A n \in Range(Needs(a)) : \E i \in 1..Len(Needs(a)) : Needs(a)[i] = n
  BY <1>1 DEF Range
<1> QED
  BY <1>1, <1>2, <1>5, <1>7, <1>8, <1>9

\* A target that is skipped is what it should be, or spoilt by what the user left.
LEMMA SkippedRight ==
  ASSUME IInv, todo # << >>, Head(todo)[2] = "call", Skips(Head(todo)[1])
  PROVE  \/ disk[Head(todo)[1]] = Right(Head(todo)[1])
         \/ (disk[Head(todo)[1]] = "partial" /\ OfLeft(Head(todo)[1]))
<1>1. PICK a \in Target : a = Head(todo)[1]
  BY TopFacts
<1>2. failed # a
  BY TopFacts, ArchiveFacts
<1>3. Head(todo) \notin {<<a, "fill">>, <<a, "patch">>}
  OBVIOUS
<1>4. ~Remakes(a) /\ disk[a] # "absent"
  BY <1>1 DEF Skips
<1>5. AtRest(a) /\ (disk[a] = "torn" => Remakes(a))
  BY <1>2, <1>3 DEF IInv, Settled
<1>6. disk[a] = Right(a) \/ (disk[a] = "partial" /\ OfLeft(a))
  BY <1>4, <1>5 DEF AtRest
<1> QED
  BY <1>1, <1>6

\* A call: what is skipped is right, and what is not skipped puts its needs before
\* its commands.
LEMMA EnterKeeps ==
  ASSUME IInv, Enter
  PROVE  IInv'
<1>0. InOrder /\ NeedsComeFirst
  BY DEF IInv
<1>1. PICK a \in Target : a = Head(todo)[1] /\ todo # << >> /\ Head(todo)[2] = "call"
  BY TopFacts DEF Enter
<1> DEFINE front == IF Skips(a) THEN << >> ELSE Calls(Needs(a)) \o Commands(a)
           rest == Tail(todo)
           m == Len(front)
           ln == Len(Needs(a))
<1>2. /\ todo' = front \o rest
      /\ asked' = IF todo' = << >> THEN "none" ELSE asked
      /\ disk' = disk /\ failed' = failed /\ failures' = failures /\ left' = left
  BY <1>1 DEF Enter, GoOn
<1>3. /\ front \in Seq(Target \X Step)
      /\ m \in Nat
      /\ ln \in Nat
      /\ Skips(a) => m = 0
      /\ ~Skips(a) =>
           /\ m = ln + Len(Body(a))
           /\ \A i \in 1..ln : front[i] = <<Needs(a)[i], "call">> /\ Needs(a)[i] \in Target
           /\ \A k \in 1..Len(Body(a)) : front[ln + k] = <<a, Body(a)[k]>>
           /\ \A n \in Range(Needs(a)) : \E i \in 1..ln : front[i] = <<n, "call">>
  <2>1. CASE Skips(a)
    <3>1. front = << >> /\ << >> \in Seq(Target \X Step) /\ Len(<< >>) = 0
      BY <2>1
    <3>2. ln \in Nat
      BY NeedsTyped, SeqParts
    <3> QED
      BY <2>1, <3>1, <3>2
  <2>2. CASE ~Skips(a)
    <3>1. front = Calls(Needs(a)) \o Commands(a)
      BY <2>2
    <3> HIDE DEF front
    <3>2. /\ front \in Seq(Target \X Step)
          /\ Len(Needs(a)) \in Nat
          /\ Len(front) = Len(Needs(a)) + Len(Body(a))
          /\ \A i \in 1..Len(Needs(a)) : front[i] = <<Needs(a)[i], "call">> /\ Needs(a)[i] \in Target
          /\ \A k \in 1..Len(Body(a)) : front[Len(Needs(a)) + k] = <<a, Body(a)[k]>>
          /\ \A n \in Range(Needs(a)) : \E i \in 1..Len(Needs(a)) : front[i] = <<n, "call">>
      BY <3>1, FrontFacts
    <3>3. Len(front) \in Nat
      BY <3>2, BodyLength
    <3> QED
      BY <2>2, <3>2, <3>3
  <2> QED
    BY <2>1, <2>2
<1>4. /\ Len(todo) \in Nat \ {0}
      /\ DOMAIN todo = 1..Len(todo)
      /\ todo[1] = Head(todo) /\ todo[1] = <<a, "call">>
      /\ rest \in Seq(Target \X Step)
      /\ Len(rest) = Len(todo) - 1
      /\ \A i \in 1..Len(rest) : rest[i] = todo[i + 1]
      /\ failed = None
  BY <1>1, TopFacts
<1> HIDE DEF front, rest, m, ln
<1>5. /\ todo' \in Seq(Target \X Step)
      /\ Len(todo') = m + Len(rest)
      /\ \A i \in 1..m : todo'[i] = front[i]
      /\ \A i \in (m + 1)..(m + Len(rest)) : todo'[i] = rest[i - m]
  <2>1. /\ front \o rest \in Seq(Target \X Step)
        /\ Len(front \o rest) = Len(front) + Len(rest)
        /\ \A i \in 1..Len(front) : (front \o rest)[i] = front[i]
        /\ \A i \in (Len(front) + 1)..(Len(front) + Len(rest)) : (front \o rest)[i] = rest[i - Len(front)]
    <3>1. front \in Seq(Target \X Step) /\ rest \in Seq(Target \X Step)
      BY <1>3, <1>4
    <3> QED
      BY <3>1, ConcatParts
  <2> QED
    BY <1>2, <2>1 DEF m
<1>6. /\ DOMAIN todo' = 1..Len(todo')
      /\ \A i \in 1..Len(todo') : todo'[i] \in Target \X Step
  BY <1>5, SeqParts
\* The two kinds of entries: those that are new, and those that were there.
<1>7. ASSUME NEW i \in DOMAIN todo', i > m
      PROVE  /\ i - m + 1 \in 2..Len(todo)
             /\ todo'[i] = todo[i - m + 1]
             /\ \A o \in 2..Len(todo) : /\ o + m - 1 \in DOMAIN todo'
                                        /\ todo'[o + m - 1] = todo[o]
  <2>1. \A o \in 2..Len(todo) : /\ o + m - 1 \in (m + 1)..(m + Len(rest))
                                /\ (o + m - 1) - m = o - 1
                                /\ o - 1 \in 1..Len(rest)
                                /\ (o - 1) + 1 = o
    BY <1>3, <1>4
  <2>2. \A o \in 2..Len(todo) : /\ o + m - 1 \in DOMAIN todo'
                                /\ todo'[o + m - 1] = todo[o]
    BY <1>3, <1>4, <1>5, <1>6, <2>1
  <2>3. i - m + 1 \in 2..Len(todo) /\ (i - m + 1) + m - 1 = i
    <3>1. i \in 1..(m + (Len(todo) - 1))
      BY <1>4, <1>5, <1>6
    <3>2. m \in Nat /\ Len(todo) \in Nat /\ i > m
      BY <1>3, <1>4, <1>7
    <3> QED
      BY <3>1, <3>2
  <2> QED
    BY <2>2, <2>3
<1>8. ASSUME NEW i \in DOMAIN todo', i <= m
      PROVE  /\ ~Skips(a)
             /\ \/ i \in 1..ln /\ todo'[i][2] = "call"
                \/ \E k \in 1..Len(Body(a)) : i = ln + k /\ todo'[i] = <<a, Body(a)[k]>>
  <2>1. ~Skips(a) /\ i \in 1..m
    BY <1>3, <1>5, <1>6, <1>8
  <2>2. CASE i \in 1..ln
    BY <1>3, <1>5, <2>1, <2>2
  <2>3. CASE i \notin 1..ln
    <3>1. /\ Len(Body(a)) \in Nat
          /\ i - ln \in 1..Len(Body(a))
          /\ i = ln + (i - ln)
      BY <1>3, <2>1, <2>3, BodyLength
    <3> QED
      BY <1>3, <1>5, <2>1, <3>1
  <2> QED
    BY <2>1, <2>2, <2>3
<1>9. StackTyped'
  <2>1. ASSUME NEW i \in DOMAIN todo'
        PROVE  todo'[i][2] = "call" \/ todo'[i][2] \in Range(Body(todo'[i][1]))
    <3>1. CASE i > m
      BY <1>4, <1>7, <3>1 DEF IInv, StackTyped
    <3>2. CASE i <= m
      BY <1>8, <3>2, BodyOrder
    <3> QED
      BY <1>3, <1>5, <1>6, <3>1, <3>2
  <2> QED
    BY <1>2, <1>4, <1>5, <2>1 DEF StackTyped
<1>10. TypeOK'
  BY <1>2, <1>6 DEF IInv, TypeOK, Step, Remakes
<1>11. Settled' /\ ArchivesSettled'
  <2>1. Head(todo) \notin {<<b, "fill">> : b \in Target} \cup {<<b, "patch">> : b \in Target}
    BY <1>4
  <2> QED
    BY <1>2, <2>1 DEF IInv, Settled, ArchivesSettled, AtRest, OfLeft, Remakes, Built, Right
<1>12. InOrder'
  <2> SUFFICES ASSUME NEW i \in DOMAIN todo'
               PROVE  /\ After(todo'[i][1], todo'[i][2]) # "none" =>
                           /\ i + 1 \in DOMAIN todo'
                           /\ todo'[i + 1] = <<todo'[i][1], After(todo'[i][1], todo'[i][2])>>
                      /\ todo'[i][2] \in {"unpack", "fill", "patch"} =>
                           /\ i > 1
                           /\ todo'[i - 1][1] = todo'[i][1]
                           /\ After(todo'[i - 1][1], todo'[i - 1][2]) = todo'[i][2]
    BY DEF InOrder, After
  <2>1. CASE i > m
    <3> DEFINE o == i - m + 1
    <3>1. /\ o \in 2..Len(todo) /\ i = o + m - 1
          /\ todo'[i] = todo[o]
          /\ \A q \in 2..Len(todo) : q + m - 1 \in DOMAIN todo' /\ todo'[q + m - 1] = todo[q]
      <4>1. i \in Int /\ m \in Int
        BY <1>3, <1>6
      <4>2. i = o + m - 1
        BY <4>1
      <4> QED
        BY <1>7, <2>1, <4>2
    <3> HIDE DEF o
    <3>2. ASSUME After(todo[o][1], todo[o][2]) # "none"
          PROVE  /\ i + 1 \in DOMAIN todo'
                 /\ todo'[i + 1] = <<todo[o][1], After(todo[o][1], todo[o][2])>>
      <4>1. /\ o + 1 \in DOMAIN todo
            /\ todo[o + 1] = <<todo[o][1], After(todo[o][1], todo[o][2])>>
        <5>1. o \in DOMAIN todo
          BY <1>4, <3>1
        <5> QED
          BY <1>0, <3>2, <5>1 DEF InOrder
      <4>2. o + 1 \in 2..Len(todo) /\ (o + 1) + m - 1 = i + 1
        BY <1>3, <1>4, <3>1, <4>1
      <4> QED
        BY <3>1, <4>1, <4>2
    <3>3. ASSUME todo[o][2] \in {"unpack", "fill", "patch"}
          PROVE  /\ i > 1
                 /\ todo'[i - 1][1] = todo[o][1]
                 /\ After(todo'[i - 1][1], todo'[i - 1][2]) = todo[o][2]
      <4>1. o \in DOMAIN todo /\ o # 1
        BY <1>4, <3>1
      <4>2. todo[o - 1][1] = todo[o][1] /\ After(todo[o - 1][1], todo[o - 1][2]) = todo[o][2]
        BY <1>0, <3>3, <4>1 DEF InOrder
      <4>3. o - 1 # 1
        <5>1. After(a, "call") = "none"
          BY DEF After
        <5> QED
          BY <1>4, <3>3, <4>2, <5>1
      <4>4. o - 1 \in 2..Len(todo) /\ (o - 1) + m - 1 = i - 1 /\ i > 1
        BY <1>3, <1>4, <3>1, <4>3
      <4> QED
        BY <3>1, <4>2, <4>4
    <3> QED
      BY <3>1, <3>2, <3>3
  <2>2. CASE i <= m /\ todo'[i][2] = "call"
    BY <2>2 DEF After
  <2>3. CASE i <= m /\ \E k \in 1..Len(Body(a)) : i = ln + k /\ todo'[i] = <<a, Body(a)[k]>>
    <3>1. PICK k \in 1..Len(Body(a)) : i = ln + k /\ todo'[i] = <<a, Body(a)[k]>>
      BY <2>3
    <3>2. /\ ~Skips(a)
          /\ m = ln + Len(Body(a))
          /\ Len(Body(a)) \in Nat
          /\ \A q \in 1..Len(Body(a)) : front[ln + q] = <<a, Body(a)[q]>>
      <4>1. ~Skips(a)
        BY <1>8, <2>3
      <4>2. Len(Body(a)) \in Nat
        BY BodyLength
      <4> QED
        BY <1>3, <4>1, <4>2
    <3>3. ASSUME NEW q \in 1..Len(Body(a))
          PROVE  ln + q \in DOMAIN todo' /\ todo'[ln + q] = <<a, Body(a)[q]>>
      <4>1. ln \in Nat /\ m \in Nat /\ Len(rest) \in Nat
        BY <1>3, <1>4
      <4>2. ln + q \in 1..m /\ ln + q \in 1..(m + Len(rest))
        BY <3>2, <4>1
      <4>3. DOMAIN todo' = 1..(m + Len(rest))
        BY <1>5, <1>6
      <4>4. todo'[ln + q] = front[ln + q]
        BY <1>5, <4>2
      <4> QED
        BY <3>2, <4>2, <4>3, <4>4
    <3>4. ASSUME After(a, Body(a)[k]) # "none"
          PROVE  /\ i + 1 \in DOMAIN todo'
                 /\ todo'[i + 1] = <<a, After(a, Body(a)[k])>>
      <4>1. k < Len(Body(a)) /\ After(a, Body(a)[k]) = Body(a)[k + 1]
        BY <3>2, <3>4, BodyOrder
      <4>2. k + 1 \in 1..Len(Body(a)) /\ ln + (k + 1) = i + 1
        BY <1>3, <3>1, <3>2, <4>1
      <4> QED
        BY <3>3, <4>1, <4>2
    <3>5. ASSUME Body(a)[k] \in {"unpack", "fill", "patch"}
          PROVE  /\ i > 1
                 /\ todo'[i - 1] = <<a, Body(a)[k - 1]>>
                 /\ After(a, Body(a)[k - 1]) = Body(a)[k]
      <4>1. k > 1 /\ After(a, Body(a)[k - 1]) = Body(a)[k]
        BY <3>2, <3>5, BodyOrder
      <4>2. k - 1 \in 1..Len(Body(a)) /\ ln + (k - 1) = i - 1 /\ i > 1
        BY <1>3, <3>1, <3>2, <4>1
      <4> QED
        BY <3>3, <4>1, <4>2
    <3> QED
      BY <3>1, <3>4, <3>5
  <2> QED
    BY <1>3, <1>5, <1>6, <1>8, <2>1, <2>2, <2>3
<1>13. NeedsComeFirst'
  <2> SUFFICES ASSUME NEW i \in DOMAIN todo', todo'[i][2] # "call",
                      NEW n \in Range(Needs(todo'[i][1])), ~Usable(n)
               PROVE  \E j \in 1..(i - 1) : todo'[j][1] = n
    BY <1>2 DEF NeedsComeFirst, Usable, Right
  <2>1. CASE i > m
    <3> DEFINE o == i - m + 1
    <3>1. /\ o \in 2..Len(todo) /\ i = o + m - 1
          /\ todo'[i] = todo[o]
          /\ \A q \in 2..Len(todo) : q + m - 1 \in DOMAIN todo' /\ todo'[q + m - 1] = todo[q]
      <4>1. i \in Int /\ m \in Int
        BY <1>3, <1>6
      <4>2. i = o + m - 1
        BY <4>1
      <4> QED
        BY <1>7, <2>1, <4>2
    <3> HIDE DEF o
    <3>2. PICK j \in 1..(o - 1) : todo[j][1] = n
      <4>1. o \in DOMAIN todo
        BY <1>4, <3>1
      <4> QED
        BY <1>0, <3>1, <4>1 DEF NeedsComeFirst
    <3>3. CASE j = 1
\* The call of a itself: its commands take its place.
      <4>1. n = a
        BY <1>4, <3>2, <3>3
      <4>2. ~Skips(a)
        <5>1. PICK b \in Target : b = todo'[i][1]
          BY <1>6
        <5>2. n \in Range(Needs(b))
          BY <5>1
        <5>3. ~OfLeft(a)
          <6>1. ~OfLeft(n)
            BY <4>1, <5>2, NeededIsNotOfLeft DEF IInv
          <6> QED
            BY <4>1, <6>1
        <5>4. disk[a] # Right(a)
          BY <4>1 DEF Usable
        <5> QED
          BY <1>1, <5>3, <5>4, SkippedRight
      <4>3. /\ m = ln + Len(Body(a))
            /\ Len(Body(a)) \in {2, 3}
            /\ front[ln + Len(Body(a))] = <<a, Body(a)[Len(Body(a))]>>
        <5>1. Len(Body(a)) \in {2, 3}
          BY BodyOrder
        <5>2. Len(Body(a)) \in 1..Len(Body(a))
          <6>1. PICK len \in {2, 3} : len = Len(Body(a))
            BY <5>1
          <6> QED
            BY <6>1
        <5> QED
          BY <1>3, <4>2, <5>1, <5>2
      <4>4. m \in 1..m /\ m \in 1..(i - 1)
        <5>1. i \in Int /\ m \in Int /\ ln \in Nat
          BY <1>3, <1>6
        <5>2. PICK len \in {2, 3} : m = ln + len
          BY <4>3
        <5>3. m >= 1
          BY <5>1, <5>2
        <5> QED
          BY <2>1, <5>1, <5>3
      <4>5. todo'[m] = front[m]
        BY <1>5, <4>4
      <4> QED
        BY <4>1, <4>3, <4>4, <4>5
    <3>4. CASE j # 1
      <4>1. j \in 2..Len(todo) /\ j + m - 1 \in 1..(i - 1)
        BY <1>3, <1>4, <3>1, <3>2, <3>4
      <4> QED
        BY <3>1, <3>2, <4>1
    <3> QED
      BY <3>3, <3>4
  <2>2. CASE i <= m
    <3>1. ~Skips(a) /\ \E k \in 1..Len(Body(a)) : i = ln + k /\ todo'[i] = <<a, Body(a)[k]>>
      BY <1>8, <2>2
    <3>2. PICK j \in 1..ln : front[j] = <<n, "call">>
      BY <1>3, <3>1
    <3>3. j \in 1..(i - 1) /\ j \in 1..m
      BY <1>3, <3>1, <3>2, BodyLength
    <3> QED
      BY <1>5, <3>2, <3>3
  <2> QED
    BY <1>3, <1>5, <1>6, <2>1, <2>2
<1> QED
  BY <1>9, <1>10, <1>11, <1>12, <1>13 DEF IInv

\* What a command does to the files, provided the invariant: it finishes its target
\* or leaves it as the next command needs it.
LEMMA CommandWorks ==
  ASSUME IInv, NEW a \in Target, NEW step \in Step, todo # << >>, Head(todo) = <<a, step>>,
         step # "call", disk' = Result(a, step)
  PROVE  /\ disk' \in [File -> Content]
         /\ \A f \in File \ {a, Archive(a)} : disk'[f] = disk[f]
         /\ disk'[a] \in {"absent", "partial", "torn", Built(a), Right(a)}
         /\ disk'[a] = "torn" => Remakes(a) /\ a \in left
         /\ After(a, step) = "none" => \/ disk'[a] = Right(a)
                                       \/ disk'[a] = "torn"
                                       \/ (disk'[a] = "partial" /\ OfLeft(a))
         /\ After(a, step) # "none" => Found(a, After(a, step))'
         /\ step = "wget" => disk'[a] = disk[a]
         /\ Archive(a) \in File => disk'[Archive(a)] \in {"absent", "plain"}
<1>1. /\ todo[1] = <<a, step>> /\ 1 \in DOMAIN todo /\ failed = None /\ failed # a
      /\ a \in File /\ Archive(a) # a
      /\ disk \in [File -> Content]
      /\ disk[a] \in {"absent", "partial", "torn", Built(a), Right(a)}
      /\ disk[a] = "torn" => Remakes(a) /\ a \in left
      /\ Archive(a) \in File => disk[Archive(a)] \in {"absent", "plain"}
  <2>1. todo[1] = <<a, step>> /\ 1 \in DOMAIN todo /\ failed = None
    BY TopFacts
  <2>2. failed # a /\ a \in File /\ Archive(a) # a
    BY <2>1, ArchiveFacts
  <2> QED
    BY <2>1, <2>2 DEF IInv, TypeOK, Settled, ArchivesSettled
<1>2. step \in {"unpack", "fill", "patch"} => Found(a, step)
  <2>1. InOrder
    BY DEF IInv
  <2>2. todo[1][1] = a /\ todo[1][2] = step
    BY <1>1
  <2> QED
    BY <1>1, <2>1, <2>2 DEF InOrder
<1>3. \A n \in Range(Needs(a)) : Usable(n)
  <2>1. NeedsComeFirst
    BY DEF IInv
  <2>2. todo[1][1] = a /\ todo[1][2] = step /\ 1..(1 - 1) = {}
    BY <1>1
  <2> QED
    BY <1>1, <2>1, <2>2 DEF NeedsComeFirst
<1>4. step \in Range(Body(a))
  BY <1>1 DEF IInv, StackTyped
<1>5. /\ Right(a) \in {"plain", "patched"}
      /\ Built(a) \in {"plain", "patched"}
      /\ a[1] # "llvm_patched" => Built(a) = Right(a)
      /\ Remakes(a) => a[1] \notin {"ninja", "cmake", "llvm_patched"}
      /\ a[1] \in {"ninja", "cmake"} => Right(a) = "plain"
  BY RemakesFacts
<1>6. \A b : (Right(b) = Right(b)') /\ (Remakes(b) <=> Remakes(b)')
  BY DEF Right, Remakes
<1>7. CASE a[1] \in {"ninja", "cmake"} /\ Body(a) = <<"wget", "unpack">>
  <2>1. step \in {"wget", "unpack"}
    BY <1>4, <1>7, ShortRanges
  <2>2. After(a, "wget") = "unpack" /\ After(a, "unpack") = "none" /\ Archive(a) \in File
    BY <1>7, ArchiveFacts DEF After
  <2>3. CASE step = "wget"
    <3>1. /\ disk' \in [File -> Content]
          /\ disk'[Archive(a)] = "plain"
          /\ \A f \in File \ {Archive(a)} : disk'[f] = disk[f]
      BY <1>1, <2>2, <2>3 DEF Result, Content
    <3> QED
      BY <1>1, <2>2, <2>3, <3>1 DEF Found
  <2>4. CASE step = "unpack"
    <3>1. Made({Archive(a)}) = "plain" /\ Inputs(a, step) = {Archive(a)}
      BY <1>2, <2>4 DEF Made, Inputs, Found
    <3>2. disk' = [disk EXCEPT ![a] = "plain"]
      BY <2>4, <3>1 DEF Result
    <3> QED
      BY <1>1, <1>5, <1>7, <2>2, <2>4, <3>2 DEF Content
  <2> QED
    BY <2>1, <2>3, <2>4
<1>8. CASE a[1] \notin {"ninja", "cmake"}
  <2>1. Archive(a) \notin File
    BY <1>8, ArchiveFacts
  <2>2. step \in {"open", "fill", "patch"} /\ (step = "patch" => a[1] = "llvm_patched")
    BY <1>4, <1>8, BodyCases, ShortRanges
  <2>3. /\ After(a, "open") = "fill"
        /\ After(a, "fill") = IF a[1] = "llvm_patched" THEN "patch" ELSE "none"
        /\ After(a, "patch") = "none"
    BY DEF After
  <2>4. CASE step = "open" /\ Remakes(a) /\ disk[a] # "absent"
    <3>1. disk' = disk
      BY <2>4 DEF Result
    <3>2. Head(todo) \notin {<<a, "fill">>, <<a, "patch">>}
      BY <2>4
    <3>3. disk[a] \in {"partial", "torn", Right(a)}
      BY <1>1, <1>5, <2>4
    <3> QED
      BY <1>1, <1>6, <2>1, <2>3, <2>4, <3>1, <3>3 DEF Found
  <2>5. CASE step = "open" /\ ~(Remakes(a) /\ disk[a] # "absent")
    <3>1. disk' = [disk EXCEPT ![a] = "partial"]
      BY <2>5 DEF Result
    <3> QED
      BY <1>1, <2>1, <2>3, <2>5, <3>1 DEF Found, Content
  <2>6. CASE step = "fill" /\ Remakes(a) /\ disk[a] # "partial"
    <3>1. disk' = disk
      BY <2>6 DEF Result
    <3>2. disk[a] \in {"torn", Right(a)}
      BY <1>2, <2>6 DEF Found
    <3> QED
      BY <1>1, <1>5, <2>1, <2>3, <2>6, <3>1, <3>2
  <2>7. CASE step = "fill" /\ ~(Remakes(a) /\ disk[a] # "partial")
    <3>1. Result(a, step) = [disk EXCEPT ![a] = Made(Range(Needs(a)))]
      BY <2>7 DEF Result, Inputs
    <3>2. CASE \A n \in Range(Needs(a)) : disk[n] = Right(n)
      <4>1. Made(Range(Needs(a))) = Built(a)
        BY <1>8, <3>2, MadeRight
      <4>2. disk' = [disk EXCEPT ![a] = Built(a)]
        BY <3>1, <4>1
      <4>3. a[1] = "llvm_patched" => Built(a) = "plain"
        BY DEF Built
      <4> QED
        BY <1>1, <1>5, <2>1, <2>3, <2>7, <4>2, <4>3 DEF Found, Content
    <3>3. CASE ~\A n \in Range(Needs(a)) : disk[n] = Right(n)
\* Results of what the user left.
      <4>1. PICK n \in Range(Needs(a)) : disk[n] = "torn" /\ n \in left
        BY <1>3, <3>3 DEF Usable
      <4>2. Made(Range(Needs(a))) = "partial" /\ OfLeft(a)
        BY <4>1 DEF Made, OfLeft
      <4>3. disk' = [disk EXCEPT ![a] = "partial"]
        BY <3>1, <4>2
      <4>4. a[1] # "llvm_patched"
        <5>1. Remakes(n)
          BY <4>1 DEF IInv, TypeOK
        <5>2. a[1] \in {"bench_results", "litmus_results"}
          BY <5>1, NeedsOfResults
        <5> QED
          BY <5>2
      <4> QED
        BY <1>1, <1>5, <2>1, <2>3, <2>7, <4>2, <4>3, <4>4 DEF Content
    <3> QED
      BY <3>2, <3>3
  <2>8. CASE step = "patch"
    <3>1. disk[a] = "plain" /\ Right(a) = "patched"
      BY <1>2, <2>2, <2>8 DEF Found, Right
    <3>2. disk' = [disk EXCEPT ![a] = "patched"]
      BY <1>1, <2>8, <3>1 DEF Result
    <3> QED
      BY <1>1, <2>1, <2>3, <2>8, <3>1, <3>2 DEF Content
  <2> QED
    BY <2>2, <2>4, <2>5, <2>6, <2>7, <2>8
<1> QED
  BY <1>7, <1>8, BodyCases

\* A command succeeds: what was waiting for it finds its target, or the command that
\* comes after it on top of the stack.
LEMMA DoKeeps ==
  ASSUME IInv, Do
  PROVE  IInv'
<1>1. todo # << >> /\ Head(todo)[2] # "call"
  BY DEF Do
<1>2. PICK a \in Target, step \in Step : Head(todo) = <<a, step>>
  BY <1>1, TopFacts
<1> DEFINE next == After(a, step)
<1>3. /\ step # "call"
      /\ disk' = Result(a, step)
      /\ todo' = Tail(todo)
      /\ asked' = IF todo' = << >> THEN "none" ELSE asked
      /\ failed' = failed /\ failures' = failures /\ left' = left
  BY <1>2 DEF Do, GoOn
<1>4. /\ Len(todo) \in Nat \ {0}
      /\ DOMAIN todo = 1..Len(todo)
      /\ 1 \in DOMAIN todo
      /\ todo[1] = <<a, step>>
      /\ todo' \in Seq(Target \X Step)
      /\ Len(todo') = Len(todo) - 1
      /\ \A i \in 1..Len(todo') : todo'[i] = todo[i + 1]
      /\ failed = None
  BY <1>1, <1>2, <1>3, TopFacts
<1>5. /\ disk' \in [File -> Content]
      /\ \A f \in File \ {a, Archive(a)} : disk'[f] = disk[f]
      /\ disk'[a] \in {"absent", "partial", "torn", Built(a), Right(a)}
      /\ disk'[a] = "torn" => Remakes(a) /\ a \in left
      /\ next = "none" => \/ disk'[a] = Right(a)
                         \/ disk'[a] = "torn"
                         \/ (disk'[a] = "partial" /\ OfLeft(a))
      /\ next # "none" => Found(a, next)'
      /\ step = "wget" => disk'[a] = disk[a]
      /\ Archive(a) \in File => disk'[Archive(a)] \in {"absent", "plain"}
  BY <1>1, <1>2, <1>3, CommandWorks
<1>6. DOMAIN todo' = 1..Len(todo') /\ \A i \in 1..Len(todo') : todo'[i] \in Target \X Step
  BY <1>4, SeqParts
<1>7. ASSUME NEW i \in DOMAIN todo'
      PROVE  i \in Nat \ {0} /\ i + 1 \in DOMAIN todo /\ i + 1 # 1 /\ todo'[i] = todo[i + 1]
  BY <1>4, <1>6
<1>8. ASSUME NEW o \in DOMAIN todo, o # 1
      PROVE  o - 1 \in DOMAIN todo' /\ todo'[o - 1] = todo[o]
  <2>1. o - 1 \in 1..Len(todo') /\ (o - 1) + 1 = o
    BY <1>4, <1>8
  <2> QED
    BY <1>4, <1>6, <2>1
<1>9. InOrder /\ NeedsComeFirst
  BY DEF IInv
\* What comes next of a is next on the stack.
<1>10. next # "none" => 1 \in DOMAIN todo' /\ todo'[1] = <<a, next>> /\ Head(todo') = <<a, next>> /\ todo' # << >>
  <2> SUFFICES ASSUME next # "none"
               PROVE  1 \in DOMAIN todo' /\ todo'[1] = <<a, next>> /\ Head(todo') = <<a, next>> /\ todo' # << >>
    OBVIOUS
  <2>1. todo[1][1] = a /\ todo[1][2] = step
    BY <1>4
  <2>2. 2 \in DOMAIN todo /\ todo[2] = <<a, next>>
    <3>1. 1 + 1 \in DOMAIN todo /\ todo[1 + 1] = <<a, next>>
      BY <1>4, <1>9, <2>1 DEF InOrder
    <3> QED
      BY <3>1
  <2>3. 1 \in DOMAIN todo' /\ todo'[1] = <<a, next>>
    BY <1>8, <2>2
  <2>4. todo' # << >>
    BY <1>4, <1>6, <2>3
  <2> QED
    BY <1>4, <2>3, <2>4
<1> HIDE DEF next
<1>11. TypeOK'
  BY <1>3, <1>5, <1>6 DEF IInv, TypeOK, Step, Remakes
<1>12. StackTyped'
  <2>1. ASSUME NEW i \in DOMAIN todo'
        PROVE  todo'[i][2] = "call" \/ todo'[i][2] \in Range(Body(todo'[i][1]))
    BY <1>7 DEF IInv, StackTyped
  <2> QED
    BY <1>3, <1>4, <2>1 DEF StackTyped
<1>13. InOrder'
  <2> SUFFICES ASSUME NEW i \in DOMAIN todo'
               PROVE  /\ After(todo'[i][1], todo'[i][2]) # "none" =>
                           /\ i + 1 \in DOMAIN todo'
                           /\ todo'[i + 1] = <<todo'[i][1], After(todo'[i][1], todo'[i][2])>>
                      /\ todo'[i][2] \in {"unpack", "fill", "patch"} =>
                           \/ i = 1 /\ Found(todo[1][1], todo[1][2])'
                           \/ /\ i > 1
                              /\ todo'[i - 1][1] = todo'[i][1]
                              /\ After(todo'[i - 1][1], todo'[i - 1][2]) = todo'[i][2]
    BY DEF InOrder
  <2>1. PICK o \in DOMAIN todo : o = i + 1 /\ o # 1 /\ todo'[i] = todo[o] /\ i \in Nat \ {0}
    BY <1>7
  <2>2. ASSUME After(todo[o][1], todo[o][2]) # "none"
        PROVE  /\ i + 1 \in DOMAIN todo'
               /\ todo'[i + 1] = <<todo[o][1], After(todo[o][1], todo[o][2])>>
    <3>1. o + 1 \in DOMAIN todo /\ todo[o + 1] = <<todo[o][1], After(todo[o][1], todo[o][2])>>
      BY <1>9, <2>2 DEF InOrder
    <3>2. o + 1 # 1 /\ (o + 1) - 1 = i + 1
      BY <2>1
    <3> QED
      BY <1>8, <3>1, <3>2
  <2>3. ASSUME todo[o][2] \in {"unpack", "fill", "patch"}
        PROVE  \/ i = 1 /\ Found(todo[1][1], todo[1][2])'
               \/ /\ i > 1
                  /\ todo'[i - 1][1] = todo[o][1]
                  /\ After(todo'[i - 1][1], todo'[i - 1][2]) = todo[o][2]
    <3>1. todo[o - 1][1] = todo[o][1] /\ After(todo[o - 1][1], todo[o - 1][2]) = todo[o][2]
      BY <1>9, <2>1, <2>3 DEF InOrder
    <3>2. CASE i = 1
      <4>1. o - 1 = 1 /\ todo[1][1] = a /\ todo[1][2] = step
        BY <1>4, <2>1, <3>2
      <4>2. next = todo[o][2] /\ next # "none" /\ todo'[1] = <<a, next>>
        BY <1>10, <2>3, <3>1, <4>1 DEF next
      <4>3. Found(a, next)' /\ todo'[1][1] = a /\ todo'[1][2] = next
        BY <1>5, <4>2
      <4> QED
        BY <3>2, <4>3 DEF Found
    <3>3. CASE i # 1
      <4>1. i > 1 /\ i - 1 \in Nat \ {0} /\ o - 1 = i /\ i # 1 /\ i \in DOMAIN todo
        BY <1>4, <2>1, <3>3
      <4>2. todo'[i - 1] = todo[i]
        BY <1>8, <4>1
      <4> QED
        BY <3>1, <4>1, <4>2
    <3> QED
      BY <3>2, <3>3
  <2> QED
    BY <2>1, <2>2, <2>3
<1>14. NeedsComeFirst'
  <2> SUFFICES ASSUME NEW i \in DOMAIN todo', todo'[i][2] # "call",
                      NEW n \in Range(Needs(todo'[i][1])), ~Usable(n)'
               PROVE  \E j \in 1..(i - 1) : todo'[j][1] = n
    BY DEF NeedsComeFirst, Usable, Right
  <2>1. PICK o \in DOMAIN todo : o = i + 1 /\ o # 1 /\ todo'[i] = todo[o] /\ i \in Nat \ {0}
    BY <1>7
  <2>2. n \in Target /\ n \in File /\ n # todo'[i][1]
    <3>1. PICK b \in Target : b = todo'[i][1]
      BY <1>6
    <3>2. Needs(b) \in Seq(Target) /\ b \notin Range(Needs(b))
      BY NeedsTyped
    <3>3. /\ DOMAIN Needs(b) = 1..Len(Needs(b))
          /\ \A k \in 1..Len(Needs(b)) : Needs(b)[k] \in Target
      BY <3>2, SeqParts
    <3>4. n \in Target
      BY <3>1, <3>3 DEF Range
    <3> QED
      BY <3>1, <3>2, <3>4, ArchiveFacts
  <2>3. CASE n = a
    <3>1. next # "none"
      <4>1. PICK b \in Target : b = todo'[i][1]
        BY <1>6
      <4>2. ~OfLeft(n)
        BY <2>2, <4>1, NeededIsNotOfLeft DEF IInv
      <4>3. disk'[a] # Right(a) /\ ~(disk'[a] = "torn" /\ a \in left)
        BY <1>3, <2>3 DEF Usable, Right
      <4> QED
        BY <1>5, <2>3, <4>2, <4>3
    <3>2. todo'[1][1] = a /\ 1 \in DOMAIN todo'
      BY <1>10, <3>1
    <3>3. i # 1
      BY <2>2, <2>3, <3>2
    <3> QED
      BY <2>1, <2>3, <3>2, <3>3
  <2>4. CASE n # a
    <3>1. ~Usable(n)
      <4>1. n # Archive(a)
        BY <2>2, ArchiveFacts
      <4> QED
        BY <1>3, <1>5, <2>2, <2>4, <4>1 DEF Usable, Right
    <3>2. PICK j \in 1..(o - 1) : todo[j][1] = n
      BY <1>9, <2>1, <3>1 DEF NeedsComeFirst
    <3>3. j # 1
      BY <1>4, <2>4, <3>2
    <3>4. j \in DOMAIN todo /\ j - 1 \in 1..(i - 1)
      BY <1>4, <2>1, <3>2, <3>3
    <3> QED
      BY <1>8, <3>2, <3>3, <3>4
  <2> QED
    BY <2>3, <2>4
<1>15. Settled'
  <2> SUFFICES ASSUME NEW b \in Target
               PROVE  /\ disk'[b] \in {"absent", "partial", "torn", Built(b), Right(b)}
                      /\ disk'[b] = "torn" => Remakes(b) /\ b \in left'
                      /\ \/ AtRest(b)'
                         \/ todo' # << >> /\ Head(todo') \in {<<b, "fill">>, <<b, "patch">>}
    BY DEF Settled, Remakes, Built, Right
  <2>1. /\ disk[b] \in {"absent", "partial", "torn", Built(b), Right(b)}
        /\ disk[b] = "torn" => Remakes(b) /\ b \in left
        /\ AtRest(b) \/ Head(todo) \in {<<b, "fill">>, <<b, "patch">>}
    BY <1>4, ArchiveFacts DEF IInv, Settled
  <2>2. CASE b # a
    <3>1. b \in File \ {a, Archive(a)}
      BY <2>2, ArchiveFacts
    <3>2. Head(todo) \notin {<<b, "fill">>, <<b, "patch">>}
      BY <1>2, <2>2
    <3>3. disk'[b] = disk[b] /\ AtRest(b)'
      BY <1>3, <1>5, <2>1, <3>1, <3>2, RestStays
    <3> QED
      BY <1>3, <2>1, <3>3
  <2>3. CASE b = a /\ next = "none"
    <3>1. AtRest(a)'
      BY <1>3, <1>5, <2>3 DEF AtRest, OfLeft, Right, Remakes
    <3> QED
      BY <1>3, <1>5, <2>3, <3>1
  <2>4. CASE b = a /\ next # "none" /\ step = "wget"
    <3>1. Head(todo) \notin {<<b, "fill">>, <<b, "patch">>}
      BY <1>2, <2>4
    <3>2. disk'[b] = disk[b] /\ AtRest(b)'
      BY <1>3, <1>5, <2>1, <2>4, <3>1, RestStays
    <3> QED
      BY <1>3, <2>1, <3>2
  <2>5. CASE b = a /\ next # "none" /\ step # "wget"
    <3>1. next \in {"fill", "patch"}
      BY <2>5 DEF next, After
    <3> QED
      BY <1>3, <1>5, <1>10, <2>5, <3>1
  <2> QED
    BY <2>2, <2>3, <2>4, <2>5
<1>16. ArchivesSettled'
  <2> SUFFICES ASSUME NEW b \in Target, Archive(b) \in File
               PROVE  disk'[Archive(b)] \in {"absent", "plain"}
    BY DEF ArchivesSettled
  <2>1. CASE b = a
    BY <1>5, <2>1
  <2>2. CASE b # a
    <3>1. Archive(b) \in File \ {a, Archive(a)}
      BY <2>2, ArchiveFacts
    <3>2. disk[Archive(b)] \in {"absent", "plain"}
      BY <1>4, ArchiveFacts DEF IInv, ArchivesSettled
    <3> QED
      BY <1>5, <3>1, <3>2
  <2> QED
    BY <2>1, <2>2
<1> QED
  BY <1>11, <1>12, <1>13, <1>14, <1>15, <1>16 DEF IInv

-----------------------------------------------------------------------------

\* Every step keeps the invariant.
LEMMA NextKeeps == IInv /\ [Next]_vars => IInv'
<1> SUFFICES ASSUME IInv, [Next]_vars PROVE IInv'
  OBVIOUS
<1>1. ASSUME NEW cmd \in DOMAIN Script, Execute(cmd) PROVE IInv'
  BY <1>1, ExecuteKeeps
<1>2. CASE Enter
  BY <1>2, EnterKeeps
<1>3. CASE Do
  BY <1>3, DoKeeps
<1>4. CASE Fail
  BY <1>4, FailKeeps
<1>5. CASE Clean
  BY <1>5, CleanKeeps
<1>6. CASE UNCHANGED vars
  <2>1. /\ disk' = disk /\ todo' = todo /\ asked' = asked
        /\ failed' = failed /\ failures' = failures /\ left' = left
    BY <1>6 DEF vars
  <2> QED
    BY <2>1
       DEF IInv, TypeOK, StackTyped, InOrder, NeedsComeFirst, Settled, ArchivesSettled, Found,
           AtRest, OfLeft, Usable, Remakes, Right, Built, After
<1> QED
  BY <1>1, <1>2, <1>3, <1>4, <1>5, <1>6 DEF Next

\* Whatever fails, and however often the user repeats: what the files hold and what
\* is on the script's stack keep their types.
THEOREM TypeCorrect == Spec => []TypeOK
<1>1. IInv => TypeOK
  BY DEF IInv
<1> QED
  BY <1>1, InitHolds, NextKeeps, PTL DEF Spec

\* "It exists, skip it" is right: a target that is skipped is complete and made by
\* the right compiler from the right sources, after any number of failures; only the
\* results of a directory that the user left with a file cut short are not.
THEOREM SkippingIsRight == Spec => []SkippedIsRight
<1>1. IInv => SkippedIsRight
  BY SkippedRight DEF SkippedIsRight
<1> QED
  BY <1>1, InitHolds, NextKeeps, PTL DEF Spec

\* The results of a configuration are those of programs its own compiler built.
THEOREM ResultsStayRight == Spec => []ResultsAreRight
<1>1. IInv => ResultsAreRight
  <2> SUFFICES ASSUME IInv, NEW c \in Configs, NEW kind \in {"bench_results", "litmus_results"}
               PROVE  disk[<<kind, c>>] \in {"absent", "partial", Right(<<kind, c>>)}
    BY DEF ResultsAreRight
  <2>1. <<kind, c>> \in Target /\ Built(<<kind, c>>) = Right(<<kind, c>>) /\ ~Remakes(<<kind, c>>)
    BY DEF Target, PerConfig, Built, Remakes
  <2> QED
    BY <2>1 DEF IInv, Settled
<1> QED
  BY <1>1, InitHolds, NextKeeps, PTL DEF Spec

\* A command starts only when all it needs is there, complete and rightly made, and no
\* file of its own directory is cut short, but for the directories that the user left
\* so: these are the only ones that repeating the command does not repair.
THEOREM InputsStayRight == Spec => []InputsAreRight
<1>1. IInv => InputsAreRight
  <2> SUFFICES ASSUME IInv, todo # << >>, NEW a \in Target, NEW step \in Step,
                      Head(todo) = <<a, step>>, step # "call"
               PROVE  /\ CanDo(a, step)
                      /\ disk[a] = "torn" => a \in left
                      /\ step = "fill" => \A n \in Range(Needs(a)) : Usable(n)
    BY TopFacts DEF InputsAreRight, Usable
  <2>1. 1 \in DOMAIN todo /\ todo[1][1] = a /\ todo[1][2] = step
    BY TopFacts
  <2>2. InOrder /\ NeedsComeFirst /\ step \in Range(Body(a))
    BY <2>1 DEF IInv, StackTyped
  <2>3. step \in {"unpack", "fill", "patch"} => Found(a, step)
    BY <2>1, <2>2 DEF InOrder
  <2>4. 1..(1 - 1) = {}
    OBVIOUS
  <2>5. \A n \in Range(Needs(a)) : Usable(n)
    BY <2>1, <2>2, <2>4 DEF NeedsComeFirst
  <2>6. CanDo(a, step)
    BY <2>3, <2>5 DEF CanDo, Inputs, Found, Usable, Right, Step
  <2>7. disk[a] = "torn" => a \in left
    BY TopFacts, ArchiveFacts DEF IInv, Settled
  <2> QED
    BY <2>5, <2>6, <2>7
<1> QED
  BY <1>1, InitHolds, NextKeeps, PTL DEF Spec
=============================================================================
