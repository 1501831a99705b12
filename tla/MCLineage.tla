------------------------------- MODULE MCLineage -------------------------------
(* Instances of the lineage of verdicts for TLC. *)
EXTENDS Lineage

CONSTANTS w1, w2, s2, w3

\* Two paths: a module and what the interpreter runs when it starts.
SuffixOf(p) == IF p = "startup.pth" THEN "pth" ELSE "py"
UsesOf(p) == {}
TreeOf(p, f) == f

Call(name, line, source) ==
    [kind |-> "call", name |-> name, text |-> name, line |-> line,
     onImport |-> FALSE, source |-> source]

\* Files: harmless, one that posts, one that posts a credential and runs a process,
\* and one that cannot be parsed.
SitesIn(f) ==
    CASE f = "posts" -> {Call("post", 1, "none")}
      [] f = "leaks" -> {Call("post", 1, "env"), Call("run", 2, "none")}
      [] OTHER -> {}
EffectOf(name) ==
    CASE name = "post" -> "network" [] name = "run" -> "process" [] OTHER -> "none"
IsParsed(f) == f # "broken"
LinesIn(f) == IF f = "imports" THEN {"import it"} ELSE {}

\* A wheel and a source distribution of one release, an older and a newer wheel.
Wheel(version) ==
    [kind |-> "wheel", tag |-> "py3", universal |-> TRUE, version |-> version, name |-> 1]
Releases ==
    [a \in Artifact |->
        CASE a = w1 -> Wheel(1) [] a = w2 -> Wheel(2) [] a = w3 -> Wheel(3)
          [] a = s2 -> [kind |-> "sdist", tag |-> None, universal |-> FALSE,
                        version |-> 2, name |-> 2]]

DefaultScores ==
    [r \in {"review", "no_pair", "no_baseline", "error", "deny"} \cup Tiers |->
        CASE r \in {"review", "same_tag"} -> 50
          [] r \in {"no_pair", "universal_wheel"} -> 60
          [] r \in {"no_baseline", "sdist"} -> 70
          [] r = "error" -> 90
          [] r = "deny" -> 100]

Holding(files) ==
    [refusal |-> "none", files |-> files, executable |-> {}, entries |-> {},
     recordValid |-> TRUE, pure |-> TRUE, identity |-> "it", requires |-> {},
     stated |-> "fixed", backend |-> {}, unreadable |-> FALSE]
Unusable == [Holding(<<>>) EXCEPT !.refusal = "analyzer_error"]
Module(f) == [p \in {"module.py"} |-> f]

Startup == [p \in {"module.py", "startup.pth"} |->
               IF p = "module.py" THEN "posts" ELSE "imports"]

\* The first wheel and the source distribution post; the second wheel may send a
\* credential; the third may be unreadable, unusable or run at start-up.
MCInit ==
    /\ content \in
         [Artifact -> {Holding(Module("posts")), Holding(Module("leaks")),
                       Holding(Module("broken")), Holding(Startup), Unusable}]
    /\ content[w1] = Holding(Module("posts"))
    /\ content[s2] = content[w1]
    /\ content[w2] \in {content[w1], Holding(Module("leaks"))}
    /\ content[w3] \in {content[w1], Holding(Module("broken")), Holding(Startup), Unusable}
    /\ Start
MCSpec == MCInit /\ [][Next]_vars

===============================================================================
