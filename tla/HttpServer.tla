----------------------------- MODULE HttpServer -----------------------------
(***************************************************************************)
(* The accept loop of the HTTP server, its connections, and the requests   *)
(* they serve (receive_request), against a directory that others change    *)
(* meanwhile.                                                              *)
(*                                                                         *)
(* A request looks at the file system several times: exists, is_dir, then  *)
(* either read, or exists, is_file and read of the index page.  Requests   *)
(* for different things do not meet, so all of them name one thing.        *)
(***************************************************************************)
EXTENDS Naturals, Sequences, FiniteSets

CONSTANTS Conns,      \* connections
          Requests,   \* the paths that may be requested
          MaxChanges, \* bound: changes of the directory
          MaxStarts   \* bound: starts of the server

ASSUME BoundsAssumption == MaxChanges \in Nat /\ MaxStarts \in Nat

(* A path is what stands between its slashes, behind the first one, which  *)
(* is stripped: /a/ is <<"a", "">>.  Of names there are "a" and one that   *)
(* has two dots in it.                                                     *)
Components == {"", ".", "..", "a", "a..a"}
Paths      == Seq(Components) \ {<<>>}

ASSUME RequestsAssumption == Requests \subseteq Paths

VARIABLES listening, \* the accept loop runs
          starts,    \* how often it was started
          step,      \* step[c]: where connection c, or the request on it, is
          path,      \* path[c]: what the last request on c asked for
          status,    \* status[c]: the status of the last response on c, 0 if none
          body,      \* body[c]: what that response carried
          entry,     \* what the requested path names, and its index.html
          changes,   \* how often entry changed
          seen       \* history, seen[c]: values of entry since the request began

vars == <<listening, starts, step, path, status, body, entry, changes, seen>>

(* exists, is_dir, is_file and read all follow symbolic links: "outside" is *)
(* a file that a link, there or further up, leads to, out of the directory. *)
(* A locked file exists and cannot be read.                                 *)
Kinds    == {"absent", "file", "outside", "locked", "dir"}
Readable == {"file", "outside"}
Entries  == {e \in [node : Kinds, index : Kinds] : e.node = "dir" \/ e.index = "absent"}

RequestSteps == {"exists", "is_dir", "read", "index_exists", "index_is_file",
                 "read_index", "respond"}
Steps  == RequestSteps \cup {"closed", "gone", "waiting"}
Bodies == {"none", "error_page", "file", "index", "outside"}

TypeOK ==
    /\ listening \in BOOLEAN /\ starts \in 0 .. MaxStarts
    /\ step \in [Conns -> Steps]
    /\ path \in [Conns -> Requests \cup {<<>>}]
    /\ status \in [Conns -> {0, 200, 400, 403, 404, 500}]
    /\ body \in [Conns -> Bodies]
    /\ entry \in Entries /\ changes \in 0 .. MaxChanges
    /\ seen \in [Conns -> SUBSET Entries]

Init ==
    /\ listening = FALSE /\ starts = 0
    /\ step = [c \in Conns |-> "closed"]
    /\ path = [c \in Conns |-> <<>>]
    /\ status = [c \in Conns |-> 0]
    /\ body = [c \in Conns |-> "none"]
    /\ entry \in Entries /\ changes = 0
    /\ seen = [c \in Conns |-> {}]

Busy(c) == step[c] \in RequestSteps

serverVars == <<listening, starts>>
dirVars    == <<entry, changes>>
replyVars  == <<status, body>>

-----------------------------------------------------------------------------
(* The accept loop *)

Listen ==
    /\ ~listening /\ starts < MaxStarts
    /\ listening' = TRUE /\ starts' = starts + 1
    /\ UNCHANGED <<step, path, replyVars, dirVars, seen>>

(* Mutant: the requests that are being served end with the accept loop. *)
AbortCuts ==
    /\ listening
    /\ listening' = FALSE
    /\ step' = [c \in Conns |-> IF Busy(c) THEN "closed" ELSE step[c]]
    /\ UNCHANGED <<starts, path, replyVars, dirVars, seen>>

(* The abort reaches the accept loop only: connections are tasks of their  *)
(* own, and requests on them are answered as before.                       *)
Abort ==
    /\ listening
    /\ listening' = FALSE
    /\ UNCHANGED <<starts, step, path, replyVars, dirVars, seen>>

Accept(c) ==
    /\ listening /\ step[c] \in {"closed", "gone"}
    /\ step' = [step EXCEPT ![c] = "waiting"]
    /\ status' = [status EXCEPT ![c] = 0]
    /\ body' = [body EXCEPT ![c] = "none"]
    /\ UNCHANGED <<serverVars, path, dirVars, seen>>

(* The client goes away, perhaps before it is answered, or the connection   *)
(* is not kept alive.                                                       *)
Close(c) ==
    /\ step[c] \notin {"closed", "gone"}
    /\ step' = [step EXCEPT ![c] = IF Busy(c) THEN "gone" ELSE "closed"]
    /\ seen' = [seen EXCEPT ![c] = {}]
    /\ path' = [path EXCEPT ![c] = <<>>]
    /\ UNCHANGED <<serverVars, replyVars, dirVars>>

-----------------------------------------------------------------------------
(* receive_request *)

Goto(c, s) ==
    /\ step' = [step EXCEPT ![c] = s]
    /\ UNCHANGED <<serverVars, path, replyVars, dirVars, seen>>

(* The error page, or the built-in text in its place, is read before the   *)
(* response is built.                                                      *)
Reply(c, code, content) ==
    /\ step' = [step EXCEPT ![c] = "respond"]
    /\ status' = [status EXCEPT ![c] = code]
    /\ body' = [body EXCEPT ![c] = content]
    /\ UNCHANGED <<serverVars, path, dirVars, seen>>

Fail(c, code) == Reply(c, code, "error_page")

(* Mutant: only a path that begins with two dots is refused. *)
PathAcceptedAtStart(p) ==
    /\ p[1] # ".."
    /\ \A i \in 2 .. Len(p) - 1 : p[i] # ""
    /\ ~(p[1] = "" /\ Len(p) > 1)

(* validate_file_path: two dots or two slashes anywhere, or a slash at the *)
(* start, are refused.  What is left is relative: joined to the directory  *)
(* it begins with the directory, as text; no link in it is resolved.       *)
PathAccepted(p) ==
    /\ \A i \in 1 .. Len(p) : p[i] \notin {"..", "a..a"}
    /\ \A i \in 2 .. Len(p) - 1 : p[i] # ""
    /\ ~(p[1] = "" /\ Len(p) > 1)

(* A request begins, and its path is refused or looked up. *)
BeginRequest(c) ==
    /\ step[c] = "waiting"
    /\ \E p \in Requests :
          /\ path' = [path EXCEPT ![c] = p]
          /\ IF PathAccepted(p)
               THEN /\ step' = [step EXCEPT ![c] = "exists"]
                    /\ UNCHANGED replyVars
               ELSE /\ step' = [step EXCEPT ![c] = "respond"]
                    /\ status' = [status EXCEPT ![c] = 400]
                    /\ body' = [body EXCEPT ![c] = "error_page"]
    /\ seen' = [seen EXCEPT ![c] = {entry}]
    /\ UNCHANGED <<serverVars, dirVars>>

CheckExists(c) ==
    /\ step[c] = "exists"
    /\ IF entry.node = "absent" THEN Fail(c, 404) ELSE Goto(c, "is_dir")

CheckIsDir(c) ==
    /\ step[c] = "is_dir"
    /\ Goto(c, IF entry.node = "dir" THEN "index_exists" ELSE "read")

(* What is read: the file itself, or one that a link led to. *)
Content(kind, name) == IF kind = "outside" THEN "outside" ELSE name

(* Mutant: a failed read is answered as an unavailable service. *)
ReadFileUnavailable(c) ==
    /\ step[c] = "read"
    /\ IF entry.node \in Readable THEN Reply(c, 200, Content(entry.node, "file"))
       ELSE Fail(c, 503)

ReadFile(c) ==
    /\ step[c] = "read"
    /\ IF entry.node \in Readable THEN Reply(c, 200, Content(entry.node, "file"))
       ELSE Fail(c, 500)

CheckIndexExists(c) ==
    /\ step[c] = "index_exists"
    /\ IF entry.index = "absent" THEN Fail(c, 403) ELSE Goto(c, "index_is_file")

(* Mutant: an index page that exists is taken for a file. *)
CheckIndexIsAny(c) ==
    /\ step[c] = "index_is_file"
    /\ Goto(c, "read_index")

CheckIndexIsFile(c) ==
    /\ step[c] = "index_is_file"
    /\ IF entry.index \in Readable \cup {"locked"} THEN Goto(c, "read_index") ELSE Fail(c, 403)

(* Mutant: an index page that is gone is taken for a missing directory. *)
ReadIndexMissing(c) ==
    /\ step[c] = "read_index"
    /\ IF entry.index \in Readable THEN Reply(c, 200, Content(entry.index, "index"))
       ELSE Fail(c, IF entry.index = "absent" THEN 404 ELSE 500)

ReadIndex(c) ==
    /\ step[c] = "read_index"
    /\ IF entry.index \in Readable THEN Reply(c, 200, Content(entry.index, "index"))
       ELSE Fail(c, 500)

(* The response is sent; the connection waits for the next request. *)
Respond(c) ==
    /\ step[c] = "respond"
    /\ step' = [step EXCEPT ![c] = "waiting"]
    /\ path' = [path EXCEPT ![c] = <<>>]
    /\ seen' = [seen EXCEPT ![c] = {}]
    /\ UNCHANGED <<serverVars, replyVars, dirVars>>

RequestStep(c) ==
    \/ CheckExists(c) \/ CheckIsDir(c) \/ ReadFile(c)
    \/ CheckIndexExists(c) \/ CheckIndexIsFile(c) \/ ReadIndex(c) \/ Respond(c)

-----------------------------------------------------------------------------
(* Somebody else puts another entry in place. *)
Change ==
    /\ changes < MaxChanges
    /\ changes' = changes + 1
    /\ entry' \in Entries \ {entry}
    /\ seen' = [c \in Conns |-> IF Busy(c) THEN seen[c] \cup {entry'} ELSE seen[c]]
    /\ UNCHANGED <<serverVars, step, path, replyVars>>

Next ==
    \/ Listen \/ Abort \/ Change
    \/ \E c \in Conns :
          \/ Accept(c) \/ Close(c) \/ BeginRequest(c)
          \/ RequestStep(c)

(* The scheduler runs a connection's task until its request is answered.   *)
Spec == Init /\ [][Next]_vars /\ \A c \in Conns : WF_vars(RequestStep(c))

-----------------------------------------------------------------------------
(* Properties *)

(* What a request means when nothing changes under it: the status and the  *)
(* body that belong to a directory entry.                                  *)
Target(e)         == IF e.node = "dir" THEN e.index ELSE e.node
ExpectedStatus(e) ==
    CASE Target(e) \in Readable -> 200
      [] Target(e) = "locked"   -> 500
      [] e.node = "absent"      -> 404
      [] OTHER                  -> 403
ExpectedBody(e) ==
    IF Target(e) \notin Readable THEN "error_page"
    ELSE Content(Target(e), IF e.node = "dir" THEN "index" ELSE "file")
Fits(e, c) == status[c] = ExpectedStatus(e) /\ body[c] = ExpectedBody(e)

Answered(c) == step[c] = "respond" /\ status[c] # 400

(* Where a path leads: it stays inside the directory if it is relative and *)
(* never climbs further than it has descended.                             *)
Climbs(p, n)   == Cardinality({i \in 1 .. n : p[i] = ".."})
Descends(p, n) == Cardinality({i \in 1 .. n : p[i] \in {"a", "a..a"}})
StaysInside(p) ==
    /\ ~(p[1] = "" /\ Len(p) > 1)
    /\ \A n \in 1 .. Len(p) : Climbs(p, n) <= Descends(p, n)

(* No path leads out of the directory by itself: whatever is looked up, and *)
(* every answer but a refusal, is for a path that stays inside as text, and *)
(* content from elsewhere is served only if a link was there to follow.     *)
(* (validation.rs:126-150.)  Links are followed: see ContentFromInside.     *)
OnlyLinksLeadOut ==
    \A c \in Conns :
       Busy(c) /\ (step[c] = "respond" => status[c] # 400) =>
          /\ StaysInside(path[c])
          /\ Answered(c) /\ body[c] = "outside" => \E e \in seen[c] : Target(e) = "outside"

(* "ensures the resolved path stays within the base directory"             *)
(* (validation.rs:117-118), "Symlinks handled safely" (SECURITY.md:38):    *)
(* what is served comes from the directory.                                *)
ContentFromInside == \A c \in Conns : Answered(c) => body[c] # "outside"

(* A directory that stands still while a request is served gets the answer *)
(* its entry deserves, through all the checks (http.rs:63-144).            *)
StableAnswer ==
    \A c \in Conns : Answered(c) =>
       \A e \in Entries : seen[c] = {e} => Fits(e, c)

(* Whatever changed between the checks, an answer is never made up: a file *)
(* that was there throughout is not reported missing, content was there    *)
(* when it was read, an internal error needs an unreadable file or a       *)
(* change during the request, and a path of ordinary names, with a slash at *)
(* its end or without, is not refused.  A name with two dots in it is.      *)
AnswerJustified ==
    /\ \A c \in Conns : step[c] = "respond" /\ status[c] = 400 =>
          \E i \in 1 .. Len(path[c]) :
             path[c][i] \notin {"a", "."} /\ (i = Len(path[c]) => path[c][i] # "")
    /\ \A c \in Conns : Answered(c) =>
       /\ status[c] = 404 => \E e \in seen[c] : e.node = "absent"
       /\ status[c] = 403 => /\ \E e \in seen[c] : e.node = "dir"
                             /\ \E e \in seen[c] : e.index \in {"absent", "dir"}
       /\ status[c] = 500 => \/ Cardinality(seen[c]) > 1
                             \/ \E e \in seen[c] : Target(e) = "locked"
       /\ status[c] = 200 => \E e \in seen[c] : Fits(e, c)

(* Every request gets its answer unless its client leaves first, also when *)
(* the server is stopped meanwhile (http.rs:215, 236): nothing else ends a *)
(* connection that is being served.                                        *)
EveryRequestEnds == \A c \in Conns : Busy(c) ~> step[c] \in {"waiting", "gone"}

=============================================================================
