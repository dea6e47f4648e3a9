------------------------------- MODULE Scanning -------------------------------
\* The scanner of internal/scanner: which files of a project a scan returns. A
\* pattern of the configuration is a record of what matchDirPattern and
\* matchFilePattern make of its form; what the file system says of a file is given
\* by the constants.
EXTENDS Gitignore, FiniteSets

CONSTANTS File,       \* the files of the project, as paths
          TooLarge,   \* larger than opts.MaxFileSize
          Binary,     \* with a null byte among the first 512
          Symlink,    \* symbolic links
          Sensitive   \* names of sensitive and default-excluded files

ASSUME ScanningAssumption == \A p \in File : p \in Seq(Range(p))

\* What a pattern's form makes of it: "**/d/**", "dir/**", "dir/name*", "*.ext" and
\* plain names; names is the set its wildcards match.
Pattern(form, dir, names) == [form |-> form, dir |-> dir, names |-> names]

\* matchDirPattern: "**/d/**" matches at every level, the others a path or
\* whatever is below it.
MatchDirPattern(path, pattern) ==
    CASE pattern.form = "anywhere" -> \E i \in DOMAIN path : path[i] \in pattern.names
      [] pattern.form \in {"under", "exact"} -> IsPrefix(pattern.dir, path)
      [] OTHER -> FALSE

\* matchFilePattern.
MatchFilePattern(path, pattern) ==
    CASE pattern.form = "under"    -> Under(path, pattern.dir)
      [] pattern.form = "glob"     -> Front(path) = pattern.dir /\ Last(path) \in pattern.names
      [] pattern.form = "anywhere" -> \E i \in 1..(Len(path) - 1) : path[i] \in pattern.names
      [] pattern.form = "exact"    -> pattern.dir = <<Last(path)>>
      [] OTHER                     -> Last(path) \in pattern.names

\* defaultExcludeDirs.
DefaultDirs == {Pattern("anywhere", <<>>, {"node_modules", ".git", "vendor", "dist", "build"})}

ShouldExcludeDir(path, excludes) == \E p \in DefaultDirs \cup excludes : MatchDirPattern(path, p)

Directories(path) == {SubSeq(path, 1, n) : n \in 0..(Len(path) - 1)}

\* A path seen from the directory root.
From(root, path) == SubSeq(path, Len(root) + 1, Len(path))

\* getGitignoreMatcher: what was parsed before is used as long as it is cached,
\* with the base it was parsed for; a directory without a .gitignore is looked at
\* again each time.
RulesAt(dir, root, ignores, cache) ==
    IF cache[dir] /= <<>> THEN cache[dir][1]
    ELSE IF ignores[dir] = <<>> THEN <<>> ELSE Matcher(ignores[dir][1], From(root, dir))

IgnoreFilesOver(path, root, ignores) ==
    {d \in DOMAIN ignores : IsPrefix(root, d) /\ Under(path, d)}

\* isGitignored: the .gitignore files from the root down, each by itself; the
\* first that ignores the file decides.
Ignoring(path, root, ignores, cache) ==
    {d \in IgnoreFilesOver(path, root, ignores) :
        Match(RulesAt(d, root, ignores, cache), From(root, path), FALSE)}

\* The .gitignore files read for a file.
Consulted(path, root, ignores, cache) ==
    {d \in IgnoreFilesOver(path, root, ignores) :
        \A e \in Ignoring(path, root, ignores, cache) : Len(d) <= Len(e)}

\* shouldExcludeFile, up to the .gitignore files.
ExcludedByName(path, excludes) == Last(path) \in Sensitive \/ \E p \in excludes : MatchFilePattern(path, p)

ShouldExcludeFile(path, root, excludes, ignores, cache) ==
    ExcludedByName(From(root, path), excludes) \/ Ignoring(path, root, ignores, cache) /= {}

\* A slip: the directory a walk starts in is never asked about.
EnteredBelow(path, top) == {d \in Directories(path) : Under(d, top)}

\* The directories the walk asks about on its way from top to a file; the project
\* itself is not asked about.
Entered(path, top) == {d \in Directories(path) : IsPrefix(top, d) /\ d /= <<>>}

\* The files the walk comes to: below top, in no excluded directory, no links.
Reached(top, excludes) ==
    {p \in File : /\ Under(p, top) /\ p \notin Symlink
                  /\ \A d \in Entered(p, top) : ~ShouldExcludeDir(d, excludes)}

Readable(p) == p \notin TooLarge /\ p \notin Binary

\* scanSubtreeInternal.
ScanFrom(top, excludes, ignores, cache) ==
    {p \in Reached(top, excludes) : ~ShouldExcludeFile(p, <<>>, excludes, ignores, cache) /\ Readable(p)}

\* scan.
Scan(excludes, ignores, cache) ==
    {p \in Reached(<<>>, excludes) : ~ShouldExcludeFile(p, <<>>, excludes, ignores, cache) /\ Readable(p)}

\* ScanSubtree: an empty path means everything.
ScanSubtree(top, excludes, ignores, cache) ==
    IF top = <<>> THEN Scan(excludes, ignores, cache) ELSE ScanFrom(top, excludes, ignores, cache)

\* The matchers cached once such a scan is done.
CachedBy(top, excludes, ignores, cache) ==
    [d \in DOMAIN ignores |->
        IF /\ cache[d] = <<>> /\ ignores[d] /= <<>>
           /\ \E p \in Reached(top, excludes) : ~ExcludedByName(p, excludes) /\ d \in Consulted(p, <<>>, ignores, cache)
        THEN <<Matcher(ignores[d][1], d)>> ELSE cache[d]]

-----------------------------------------------------------------------------
(* Submodules, which Scan adds when its options ask for them.              *)

\* matchPattern: equal, or by its beginning, its end or a part of it.
SubmodulePattern(name, pattern) ==
    \/ name = pattern.name
    \/ /\ pattern.form = "prefix"
       /\ IsPrefix(pattern.name, name)
    \/ /\ pattern.form = "suffix"
       /\ IsSuffix(pattern.name, name)

\* MatchesPattern: excluded first; nothing to include means all.
IncludesSubmodule(module, include, exclude) ==
    /\ ~\E e \in exclude : SubmodulePattern(module.name, e) \/ SubmodulePattern(module.path, e)
    /\ include = {} \/ \E i \in include : SubmodulePattern(module.name, i) \/ SubmodulePattern(module.path, i)

\* IsInitialized: something besides .git is in it.
Initialized(path) == \E p \in File : Under(p, path) /\ p[Len(path) + 1] /= ".git"

\* ParseGitmodules: the entries of a directory's .gitmodules that have a path, the
\* path taken from the project's root.
Gitmodules(entries, dir) == {[e EXCEPT !.path = dir \o @] : e \in {x \in entries : x.path /= <<>>}}

\* discoverSubmodulesRecursive: modules gives the entries of every .gitmodules;
\* depth is how far it descends, 0 unless the configuration asks for recursion.
\* An excluded submodule hides those in it.
Discovered(modules, include, exclude, depth) ==
    LET Inside(dir) == IF dir \notin DOMAIN modules THEN {}
                      ELSE {m \in Gitmodules(modules[dir], dir) : IncludesSubmodule(m, include, exclude)}
        at[n \in 0..depth] ==
            IF n = 0 THEN Inside(<<>>) ELSE UNION {Inside(m.path) : m \in {x \in at[n - 1] : Initialized(x.path)}}
    IN  UNION {at[n] : n \in 0..depth}

\* scanSubmodule: patterns and .gitignore files are taken as if the submodule were
\* the project, except for matchers the scan of the project has cached already.
ScanSubmodule(module, excludes, ignores, cache) ==
    {p \in File \ Symlink :
        /\ Under(p, module.path)
        /\ \A d \in Entered(p, module.path) \ {module.path} :
              Last(d) /= ".git" /\ ~ShouldExcludeDir(From(module.path, d), excludes)
        /\ ~ShouldExcludeFile(p, module.path, excludes, ignores, cache) /\ Readable(p)}
=============================================================================
