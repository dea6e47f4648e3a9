------------------------------- MODULE Sessions -------------------------------
\* Named sessions: the session directories, the serve processes that open, fill
\* and save them, and the commands that delete them meanwhile. A file name refers
\* to an inode, so that a server still writing session.json.tmp goes on writing
\* the file another server has renamed. Times are left out: a prune may find any
\* session old.
EXTENDS Naturals, FiniteSets, Sequences, SequencesExt

CONSTANTS Server,       \* serve --session processes
          Session,      \* session names
          Project,      \* project roots
          Built,        \* the projects with an index of their own
          Inode,        \* bound: inodes of session.json and its temporary file
          MaxSessions,  \* m.maxSessions
          MaxOpens,     \* bound on the servers started
          Nothing       \* no inode, no project, no server

ASSUME SessionsAssumption ==
    /\ Built \subseteq Project
    /\ Nothing \notin Session \cup Project \cup Server \cup Inode
    /\ MaxSessions \in Nat /\ MaxOpens \in Nat

VARIABLES json,     \* session.json of each session
          tmp,      \* session.json.tmp of each session
          content,  \* what each inode holds: a project, or Nothing while it is torn
          files,    \* the index files of each session: how far each is there
          step,     \* where each server is
          sess,     \* each server's session and project, and the sessions it counted
          holds,    \* the inode each server is writing
          copied,   \* how far each server has copied: two steps for each index file
          bereft,   \* servers whose session was deleted since they opened it, or opened for two projects
          pid,      \* the server named in each project's serve.pid
          raced,    \* projects whose PID file two servers have taken at once
          opens,    \* number of servers started so far
          shared,   \* sessions whose temporary file two saves have used at once
          excess    \* sessions created past a stale count, or saved back once deleted

sessionVars == <<json, tmp, content, files, step, sess, holds, copied, bereft, pid, raced, opens, shared, excess>>

\* What CopyIndexFiles copies, in its order (the vector files and the BM25 index
\* taken as one); the presence of the first is what later servers look at.
IndexFiles == <<"metadata.db", "vectors.hnsw">>
NoFiles == [f \in Range(IndexFiles) |-> "none"]

Exists(n)    == json[n] /= Nothing
Whole(n)     == content[json[n]] /= Nothing
SessionCount == Cardinality({n \in Session : Exists(n)})

HasRoom == SessionCount < MaxSessions

Referred     == {json[n] : n \in Session} \cup {tmp[n] : n \in Session} \cup {holds[s] : s \in Server}

NewInode     == CHOOSE i \in Inode \ Referred : TRUE
Saving(n)    == \E s \in Server : holds[s] /= Nothing /\ sess[s].name = n

SessionsInit ==
    /\ json = [n \in Session |-> Nothing] /\ tmp = [n \in Session |-> Nothing]
    /\ content = [i \in Inode |-> Nothing]
    /\ files = [n \in Session |-> NoFiles]
    /\ step = [s \in Server |-> "down"]
    /\ sess = [s \in Server |-> [name |-> Nothing, project |-> Nothing, counted |-> 0]]
    /\ holds = [s \in Server |-> Nothing] /\ copied = [s \in Server |-> 0] /\ bereft = {}
    /\ pid = [p \in Project |-> Nothing] /\ raced = {}
    /\ opens = 0 /\ shared = {} /\ excess = {}

\* The servers that have the session open for another project: a session that does
\* not exist yet may be created by several at once.
Rivals(s, n, p) ==
    {r \in Server \ {s} : step[r] /= "down" /\ sess[r].name = n /\ sess[r].project /= p}

\* Open: an existing session must load and belong to the project; a new one needs
\* room, counted now and created later.
Open(s, n, p) ==
    /\ step[s] = "down" /\ opens < MaxOpens
    /\ opens' = opens + 1
    /\ sess' = [sess EXCEPT ![s] = [name |-> n, project |-> p, counted |-> SessionCount]]
    /\ copied' = [copied EXCEPT ![s] = 0]
    /\ \/ /\ Exists(n) /\ Whole(n) /\ content[json[n]] = p
          /\ step' = [step EXCEPT ![s] = "opened"]
       \/ /\ ~Exists(n) /\ HasRoom
          /\ step' = [step EXCEPT ![s] = "create"]
       \/ /\ IF Exists(n) THEN content[json[n]] /= p ELSE ~HasRoom
          /\ UNCHANGED step
    /\ bereft' = IF step' = step \/ Rivals(s, n, p) = {} THEN bereft \ {s}
                 ELSE bereft \cup {s} \cup Rivals(s, n, p)
    /\ UNCHANGED <<json, tmp, content, files, holds, pid, raced, shared, excess>>

\* SaveSession, on creation and at shutdown: the temporary file is created, or
\* truncated where another save has left one, then written, then renamed.
NextStep(s, creating, saving) == [step EXCEPT ![s] = IF @ \in {"create", "fill", "name"} THEN creating ELSE saving]

OpenTemporary(s) ==
    LET n == sess[s].name
    IN  /\ step[s] \in {"create", "save"}
        /\ tmp[n] /= Nothing \/ Inode \ Referred /= {}
        /\ step' = NextStep(s, "fill", "refill")
        /\ LET i == IF tmp[n] /= Nothing THEN tmp[n] ELSE NewInode IN
              /\ tmp' = [tmp EXCEPT ![n] = i]
              /\ holds' = [holds EXCEPT ![s] = i]
              /\ content' = [content EXCEPT ![i] = Nothing]
              /\ shared' = IF Saving(n) THEN shared \cup {n} ELSE shared
        /\ UNCHANGED <<json, files, sess, copied, bereft, pid, raced, opens, excess>>

WriteTemporary(s) ==
    /\ step[s] \in {"fill", "refill"}
    /\ content' = [content EXCEPT ![holds[s]] = sess[s].project]
    /\ step' = NextStep(s, "name", "rename")
    /\ UNCHANGED <<json, tmp, files, sess, holds, copied, bereft, pid, raced, opens, shared, excess>>

\* The rename fails when the temporary file is gone.
Rename(s) ==
    LET n == sess[s].name
    IN  /\ step[s] \in {"name", "rename"}
        /\ IF tmp[n] = Nothing
           THEN UNCHANGED <<json, tmp, excess>> /\ step' = NextStep(s, "down", "leave")
           ELSE /\ json' = [json EXCEPT ![n] = tmp[n]]
                /\ tmp' = [tmp EXCEPT ![n] = Nothing]
                /\ excess' = IF ~Exists(n) /\ (step[s] = "rename" \/ SessionCount > sess[s].counted)
                             THEN excess \cup {n} ELSE excess
                /\ step' = NextStep(s, "opened", "leave")
        /\ holds' = [holds EXCEPT ![s] = Nothing]
        /\ UNCHANGED <<content, files, sess, copied, bereft, pid, raced, opens, shared>>

\* serve.pid of the project is looked at, removed and written, with nothing held in
\* between: a server is refused only where the file names another that runs.
Taking(p) == {r \in Server : step[r] \in {"unlink", "claim"} /\ sess[r].project = p}

CheckPID(s) ==
    LET p == sess[s].project
    IN  /\ step[s] = "opened"
        /\ IF pid[p] /= Nothing /\ pid[p] /= s /\ step[pid[p]] /= "down"
           THEN step' = [step EXCEPT ![s] = "down"] /\ UNCHANGED raced
           ELSE /\ step' = [step EXCEPT ![s] = "unlink"]
                /\ raced' = IF Taking(p) /= {} THEN raced \cup {p} ELSE raced
        /\ UNCHANGED <<json, tmp, content, files, sess, holds, copied, bereft, pid, opens, shared, excess>>

RemovePID(s) ==
    /\ step[s] = "unlink"
    /\ step' = [step EXCEPT ![s] = "claim"]
    /\ pid' = [pid EXCEPT ![sess[s].project] = Nothing]
    /\ UNCHANGED <<json, tmp, content, files, sess, holds, copied, bereft, raced, opens, shared, excess>>

\* Where the write fails the server ends.
WritePID(s) ==
    /\ step[s] = "claim"
    /\ \/ step' = [step EXCEPT ![s] = "stat"] /\ pid' = [pid EXCEPT ![sess[s].project] = s]
       \/ step' = [step EXCEPT ![s] = "down"] /\ UNCHANGED pid
    /\ UNCHANGED <<json, tmp, content, files, sess, holds, copied, bereft, raced, opens, shared, excess>>

\* Only metadata.db is looked at: where it is there, nothing is copied.
FindIndex(s) ==
    /\ step[s] = "stat"
    /\ step' = [step EXCEPT ![s] =
           IF files[sess[s].name]["metadata.db"] /= "none" THEN "serve"
           ELSE IF sess[s].project \in Built THEN "copy" ELSE "leave"]
    /\ UNCHANGED <<json, tmp, content, files, sess, holds, copied, bereft, pid, raced, opens, shared, excess>>

HasDirectory(n) == Exists(n) \/ tmp[n] /= Nothing \/ files[n] /= NoFiles

\* copyFile, file after file: the destination is created, then filled. CopyIndexFiles
\* makes the directory before the first file only; later ones fail without it.
CopyFile(s) ==
    LET n == sess[s].name
        f == IndexFiles[(copied[s] \div 2) + 1]
    IN  /\ step[s] = "copy"
        /\ IF copied[s] = 2 * Len(IndexFiles)
           THEN step' = [step EXCEPT ![s] = "serve"] /\ UNCHANGED <<files, copied>>
           ELSE IF copied[s] % 2 = 0 /\ copied[s] > 0 /\ ~HasDirectory(n)
           THEN step' = [step EXCEPT ![s] = "leave"] /\ UNCHANGED <<files, copied>>
           ELSE /\ files' = [files EXCEPT ![n][f] = IF copied[s] % 2 = 0 THEN "partial"
                                                     ELSE IF @ = "partial" THEN "whole" ELSE @]
                /\ copied' = [copied EXCEPT ![s] = @ + 1]
                /\ UNCHANGED step
        /\ UNCHANGED <<json, tmp, content, sess, holds, bereft, pid, raced, opens, shared, excess>>

\* A slip: a failed copy is passed over.
PassOver(s) ==
    /\ step[s] = "copy"
    /\ step' = [step EXCEPT ![s] = "serve"]
    /\ UNCHANGED <<json, tmp, content, files, sess, holds, copied, bereft, pid, raced, opens, shared, excess>>

\* A copy fails, or a store does not open: the server ends. What it has copied stays.
FailStart(s) ==
    /\ step[s] \in {"copy", "serve"}
    /\ step' = [step EXCEPT ![s] = "leave"]
    /\ UNCHANGED <<json, tmp, content, files, sess, holds, copied, bereft, pid, raced, opens, shared, excess>>

\* Shutdown: the session is saved, then the PID file removed, whoever it names.
Shutdown(s) ==
    /\ step[s] = "serve"
    /\ step' = [step EXCEPT ![s] = "save"]
    /\ UNCHANGED <<json, tmp, content, files, sess, holds, copied, bereft, pid, raced, opens, shared, excess>>

Leave(s) ==
    /\ step[s] = "leave"
    /\ step' = [step EXCEPT ![s] = "down"]
    /\ pid' = [pid EXCEPT ![sess[s].project] = Nothing]
    /\ UNCHANGED <<json, tmp, content, files, sess, holds, copied, bereft, raced, opens, shared, excess>>

\* A server is killed anywhere.
KillServer(s) ==
    /\ step[s] /= "down"
    /\ step' = [step EXCEPT ![s] = "down"]
    /\ holds' = [holds EXCEPT ![s] = Nothing]
    /\ UNCHANGED <<json, tmp, content, files, sess, copied, bereft, pid, raced, opens, shared, excess>>

\* sessions delete, and sessions prune for each session it found old: nothing asks
\* whether a server has the session open.
Delete(n) ==
    /\ Exists(n)
    /\ json' = [json EXCEPT ![n] = Nothing] /\ tmp' = [tmp EXCEPT ![n] = Nothing]
    /\ files' = [files EXCEPT ![n] = NoFiles]
    /\ shared' = (IF Saving(n) THEN shared ELSE shared \ {n}) /\ excess' = excess \ {n}
    /\ bereft' = bereft \cup {s \in Server : sess[s].name = n}
    /\ UNCHANGED <<content, step, sess, holds, copied, pid, raced, opens>>

SessionsNext ==
    \/ \E s \in Server, n \in Session, p \in Project : Open(s, n, p)
    \/ \E s \in Server : \/ OpenTemporary(s) \/ WriteTemporary(s) \/ Rename(s) \/ CheckPID(s)
                         \/ RemovePID(s) \/ WritePID(s) \/ FindIndex(s) \/ CopyFile(s)
                         \/ FailStart(s) \/ Shutdown(s) \/ Leave(s) \/ KillServer(s)
    \/ \E n \in Session : Delete(n)

SessionsSpec == SessionsInit /\ [][SessionsNext]_sessionVars

-----------------------------------------------------------------------------

\* session.json is never seen half written (storage.go:37-66), unless two saves of
\* one session have shared its temporary file.
SessionFileIsWhole == \A n \in Session : Exists(n) /\ n \notin shared => Whole(n)

\* A server that copied the index serves all of it (serve.go:769-782): a copy cut
\* short is only ever served by a later server, which looks at metadata.db alone. Not
\* so once the session was deleted, or opened for another project at the same time,
\* or where two servers have taken the project's PID file at once.
CopierServesAll ==
    \A s \in Server \ bereft : step[s] = "serve" /\ copied[s] > 0 /\ sess[s].project \notin raced =>
        \A f \in Range(IndexFiles) : files[sess[s].name][f] = "whole"

\* The limit on sessions is only passed by servers that counted at the same time,
\* and by saving back a session deleted while it was served (manager.go:76-90).
WithinLimit == Cardinality({n \in Session : Exists(n)} \ excess) <= MaxSessions

\* Sessions are read whole, copied for everyone who asked, and no more than the
\* limit allows (internal/session, cmd/serve.go).
SessionsAreWhole == SessionFileIsWhole /\ CopierServesAll /\ WithinLimit
=============================================================================
