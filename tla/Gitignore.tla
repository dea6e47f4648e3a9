------------------------------- MODULE Gitignore -------------------------------
\* The matcher of internal/gitignore. A path is a sequence of names; a segment of a
\* pattern is the set of names its wildcards and character classes match as a Go
\* regular expression, or AnyDirs for "**". "**" in a segment beside names is "**" at
\* its beginning, as in "**b". A line of a .gitignore file is what AddPatternWithBase
\* distinguishes of it: whether it is negated, has a leading or a trailing slash, and
\* its segments; git has the segments as git reads them. Blank lines and comments are
\* left out; a line's escapes are part of what its segments match.
EXTENDS Naturals, Sequences, SequencesExt

AnyDirs == {"**"}

\* A line, as it is written. Git takes the stars of "**b" for one.
Line(segments) ==
    [negation |-> FALSE, rooted |-> FALSE, dirOnly |-> FALSE, star |-> FALSE, segments |-> segments,
     git |-> [i \in DOMAIN segments |-> IF segments[i] = AnyDirs THEN AnyDirs ELSE segments[i] \ AnyDirs]]

\* AddPatternWithBase: a pattern is anchored by a leading slash, or by one inside
\* it unless it begins with a star.
Rule(line, base) ==
    [negation |-> line.negation, dirOnly |-> line.dirOnly, base |-> base,
     segments |-> line.segments, git |-> line.git,
     anchored |-> line.rooted \/ (Len(line.segments) > 1 /\ line.segments[1] /= AnyDirs /\ ~line.star)]

\* AddFromFile: every line becomes a rule, in order.
Matcher(lines, base) == [i \in DOMAIN lines |-> Rule(lines[i], base)]

\* Where the last n segments of a pattern may begin in a path, given where the ones
\* after the first of them may: "**/" stands for any number of directories, a last
\* "**" for anything, "**" before other characters for anything up to them, slashes
\* too, every other segment for one name.
Starts(segments, path, n, after) ==
    LET segment == segments[Len(segments) - n + 1]
    IN  IF segment = AnyDirs
        THEN IF n = 1 THEN 1..Len(path) ELSE {j \in 1..(Len(path) + 1) : \E k \in after : j <= k}
        ELSE {j \in 1..Len(path) :
                 \E k \in j..Len(path) :
                     (k = j \/ AnyDirs \subseteq segment) /\ path[k] \in segment /\ k + 1 \in after}

\* patternToRegex: the whole pattern matches the whole path.
Regex(segments, path) ==
    LET starts[n \in 0..Len(segments)] ==
            IF n = 0 THEN {Len(path) + 1} ELSE Starts(segments, path, n, starts[n - 1])
    IN  1 \in starts[Len(segments)]

Under(path, base) == IsPrefix(base, path) /\ Len(path) > Len(base)

\* matchRule, for a path below the rule's base: an anchored pattern matches the
\* path, or a directory on the way to it if it is for directories only; a pattern
\* for directories matches one of the names on the way; any other one the last
\* name, the path, or any name on the way.
MatchRule(path, isDir, rule) ==
    LET p     == SubSeq(path, Len(rule.base) + 1, Len(path))
        names == {i \in 1..Len(p) : Regex(rule.segments, <<p[i]>>)}
    IN  /\ Under(path, rule.base)
        /\ IF rule.anchored
           THEN \/ /\ Regex(rule.segments, p)
                   /\ rule.dirOnly => isDir
                \/ /\ rule.dirOnly
                   /\ \E i \in 1..(Len(p) - 1) : Regex(rule.segments, SubSeq(p, 1, i))
           ELSE IF rule.dirOnly
           THEN \E i \in names : i < Len(p) \/ isDir
           ELSE names /= {} \/ Regex(rule.segments, p)

\* Match: the last rule that matches decides.
Match(rules, path, isDir) ==
    LET matching == {i \in DOMAIN rules : MatchRule(path, isDir, rules[i])}
    IN  matching /= {} /\ ~rules[CHOOSE i \in matching : \A j \in matching : j <= i].negation

-----------------------------------------------------------------------------

\* What git does with a pattern, for reference: a pattern with a slash before its
\* end is relative to the directory of its file, one without it applies at every
\* level, and a path is ignored with the directory it is in.
GitMatches(path, isDir, rule) ==
    /\ Under(path, rule.base)
    /\ LET p == SubSeq(path, Len(rule.base) + 1, Len(path))
       IN  /\ rule.dirOnly => isDir
           /\ IF rule.anchored \/ Len(rule.git) > 1 THEN Regex(rule.git, p)
              ELSE Regex(rule.git, <<Last(p)>>)

GitIgnores(rules, path) ==
    \E n \in 1..Len(path), i \in DOMAIN rules : GitMatches(SubSeq(path, 1, n), n < Len(path), rules[i])

\* The line means the same to both: no "**" beside other characters and no character
\* class with a "!".
Plain(line) == line.git = line.segments
=============================================================================
