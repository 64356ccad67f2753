-------------------------- MODULE HttpServerProofs --------------------------
(***************************************************************************)
(* The answers of the HTTP server, for any number of connections, changes  *)
(* of the directory and requested paths.                                   *)
(***************************************************************************)
EXTENDS HttpServer, FiniteSetTheorems, TLAPS

-----------------------------------------------------------------------------
(* Types *)

(* Going on to the next check, and answering. *)
LEMMA GotoType ==
    ASSUME TypeOK, NEW c \in Conns, NEW s \in Steps, Goto(c, s)
    PROVE  TypeOK'
BY DEF TypeOK, Goto, serverVars, replyVars, dirVars

LEMMA ReplyType ==
    ASSUME TypeOK, NEW c \in Conns, NEW x \in {200, 403, 404, 500}, NEW b \in Bodies,
           Reply(c, x, b)
    PROVE  TypeOK'
BY DEF TypeOK, Reply, serverVars, dirVars, Steps, RequestSteps

(* A check of a request goes on to the next one or answers. *)
LEMMA Outcomes ==
    ASSUME NEW c \in Conns, RequestStep(c), ~Respond(c)
    PROVE  \/ \E s \in Steps \ {"respond"} : Goto(c, s)
           \/ \E x \in {200, 403, 404, 500}, b \in Bodies : Reply(c, x, b)
<1> USE DEF Steps, RequestSteps, Bodies, Fail
<1>1. CASE CheckExists(c)
  BY <1>1 DEF CheckExists
<1>2. CASE CheckIsDir(c)
  BY <1>2 DEF CheckIsDir
<1>3. CASE ReadFile(c)
  BY <1>3 DEF ReadFile, Content
<1>4. CASE CheckIndexExists(c)
  BY <1>4 DEF CheckIndexExists
<1>5. CASE CheckIndexIsFile(c)
  BY <1>5 DEF CheckIndexIsFile
<1>6. CASE ReadIndex(c)
  BY <1>6 DEF ReadIndex, Content
<1> QED
  BY <1>1, <1>2, <1>3, <1>4, <1>5, <1>6 DEF RequestStep

(* The checks of a request. *)
LEMMA RequestType ==
    ASSUME TypeOK, NEW c \in Conns, RequestStep(c)
    PROVE  TypeOK'
<1>1. CASE Respond(c)
  BY <1>1 DEF TypeOK, Respond, serverVars, replyVars, dirVars, Steps
<1>2. CASE ~Respond(c)
  BY <1>2, Outcomes, GotoType, ReplyType
<1> QED
  BY <1>1, <1>2

(* The state of every connection stays well typed: in particular, no other *)
(* status than 200, 400, 403, 404 and 500 is answered (http.rs:49-144).    *)
THEOREM HttpTypeCorrect == Spec => []TypeOK
<1>1. Init => TypeOK
  <2> SUFFICES ASSUME Init PROVE TypeOK
    OBVIOUS
  <2>0. listening \in BOOLEAN /\ entry \in Entries
    BY DEF Init
  <2>1. starts \in 0 .. MaxStarts /\ changes \in 0 .. MaxChanges
    BY BoundsAssumption DEF Init
  <2>2. /\ step \in [Conns -> Steps] /\ status \in [Conns -> {0, 200, 400, 403, 404, 500}]
        /\ body \in [Conns -> Bodies]
    BY DEF Init, Steps, Bodies
  <2>3. path \in [Conns -> Requests \cup {<<>>}] /\ seen \in [Conns -> SUBSET Entries]
    BY DEF Init
  <2> QED
    BY <2>0, <2>1, <2>2, <2>3 DEF TypeOK
<1>2. TypeOK /\ [Next]_vars => TypeOK'
  <2> SUFFICES ASSUME TypeOK, [Next]_vars PROVE TypeOK'
    OBVIOUS
  <2>1. CASE Listen
    BY <2>1, BoundsAssumption DEF TypeOK, Listen, replyVars, dirVars
  <2>2. CASE Abort
    BY <2>2 DEF TypeOK, Abort, replyVars, dirVars
  <2>3. CASE Change
    BY <2>3, BoundsAssumption DEF TypeOK, Change, serverVars, replyVars
  <2>4. ASSUME NEW c \in Conns, Accept(c) PROVE TypeOK'
    BY <2>4 DEF TypeOK, Accept, Steps, Bodies, serverVars, dirVars
  <2>5. ASSUME NEW c \in Conns, Close(c) PROVE TypeOK'
    BY <2>5 DEF TypeOK, Close, replyVars, Steps, serverVars, dirVars
  <2>6. ASSUME NEW c \in Conns, BeginRequest(c) PROVE TypeOK'
    <3>1. PICK p \in Requests :
             /\ path' = [path EXCEPT ![c] = p]
             /\ IF PathAccepted(p)
                  THEN step' = [step EXCEPT ![c] = "exists"] /\ UNCHANGED replyVars
                  ELSE /\ step' = [step EXCEPT ![c] = "respond"]
                       /\ status' = [status EXCEPT ![c] = 400]
                       /\ body' = [body EXCEPT ![c] = "error_page"]
      BY <2>6 DEF BeginRequest
    <3>2. seen' = [seen EXCEPT ![c] = {entry}] /\ {entry} \in SUBSET Entries
      BY <2>6 DEF BeginRequest, TypeOK
    <3>3. listening' = listening /\ starts' = starts /\ entry' = entry /\ changes' = changes
      BY <2>6 DEF BeginRequest, serverVars, dirVars
    <3>4. CASE PathAccepted(p)
      <4>1. /\ step' = [step EXCEPT ![c] = "exists"] /\ path' = [path EXCEPT ![c] = p]
            /\ status' = status /\ body' = body
        BY <3>1, <3>4 DEF replyVars
      <4> QED
        BY <3>2, <3>3, <4>1 DEF TypeOK, Steps, RequestSteps
    <3>5. CASE ~PathAccepted(p)
      <4>1. /\ step' = [step EXCEPT ![c] = "respond"] /\ path' = [path EXCEPT ![c] = p]
            /\ status' = [status EXCEPT ![c] = 400] /\ body' = [body EXCEPT ![c] = "error_page"]
        BY <3>1, <3>5
      <4> QED
        BY <3>2, <3>3, <4>1 DEF TypeOK, Steps, RequestSteps, Bodies
    <3> QED
      BY <3>4, <3>5
  <2>7. ASSUME NEW c \in Conns, RequestStep(c) PROVE TypeOK'
    BY <2>7, RequestType
  <2>8. CASE UNCHANGED vars
    BY <2>8 DEF TypeOK, vars
  <2> QED
    BY <2>1, <2>2, <2>3, <2>4, <2>5, <2>6, <2>7, <2>8 DEF Next
<1> QED
  BY <1>1, <1>2, PTL DEF Spec

(* What happens on one connection leaves the others alone. *)
LEMMA OthersStay ==
    ASSUME TypeOK, NEW c \in Conns, NEW d \in Conns \ {c},
           Accept(d) \/ Close(d) \/ BeginRequest(d) \/ RequestStep(d)
    PROVE  /\ step'[c] = step[c] /\ path'[c] = path[c] /\ seen'[c] = seen[c]
           /\ status'[c] = status[c] /\ body'[c] = body[c] /\ entry' = entry
<1> USE DEF TypeOK, dirVars
<1>1. CASE Accept(d) \/ Close(d)
  BY <1>1 DEF Accept, Close, replyVars
<1>2. CASE BeginRequest(d)
  <2>1. PICK p \in Requests :
           /\ path' = [path EXCEPT ![d] = p]
           /\ IF PathAccepted(p)
                THEN step' = [step EXCEPT ![d] = "exists"] /\ UNCHANGED replyVars
                ELSE /\ step' = [step EXCEPT ![d] = "respond"]
                     /\ status' = [status EXCEPT ![d] = 400]
                     /\ body' = [body EXCEPT ![d] = "error_page"]
    BY <1>2 DEF BeginRequest
  <2>2. seen' = [seen EXCEPT ![d] = {entry}] /\ entry' = entry
    BY <1>2 DEF BeginRequest
  <2>3. CASE PathAccepted(p)
    BY <2>1, <2>2, <2>3 DEF replyVars
  <2>4. CASE ~PathAccepted(p)
    BY <2>1, <2>2, <2>4
  <2> QED
    BY <2>3, <2>4
<1>3. CASE Respond(d)
  BY <1>3 DEF Respond, replyVars
<1>4. CASE RequestStep(d) /\ ~Respond(d)
  <2>1. CASE \E s \in Steps \ {"respond"} : Goto(d, s)
    BY <2>1 DEF Goto, replyVars
  <2>2. CASE \E x \in {200, 403, 404, 500}, b \in Bodies : Reply(d, x, b)
    BY <2>2 DEF Reply
  <2> QED
    BY <1>4, <2>1, <2>2, Outcomes
<1> QED
  BY <1>1, <1>2, <1>3, <1>4

-----------------------------------------------------------------------------
(* Paths *)

(* What validate_file_path accepts stays inside the directory: it has no   *)
(* component that climbs (validation.rs:126-150).                          *)
LEMMA AcceptedStaysInside ==
    ASSUME NEW p \in Paths, PathAccepted(p)
    PROVE  StaysInside(p)
<1>1. ASSUME NEW n \in 1 .. Len(p) PROVE Climbs(p, n) <= Descends(p, n)
  <2>1. n \in Nat /\ 1 .. n \subseteq 1 .. Len(p)
    BY DEF Paths
  <2>2. {i \in 1 .. n : p[i] = ".."} = {}
    BY <2>1 DEF PathAccepted
  <2>3. Climbs(p, n) = 0
    BY <2>2, FS_EmptySet DEF Climbs
  <2>4. IsFiniteSet({i \in 1 .. n : p[i] \in {"a", "a..a"}})
    <3>1. IsFiniteSet(1 .. n)
      BY <2>1, FS_Interval
    <3>2. {i \in 1 .. n : p[i] \in {"a", "a..a"}} \in SUBSET (1 .. n)
      OBVIOUS
    <3> QED
      BY <3>1, <3>2, FS_Subset
  <2>5. Descends(p, n) \in Nat
    BY <2>4, FS_CardinalityType DEF Descends
  <2> QED
    BY <2>3, <2>5
<1> QED
  BY <1>1 DEF PathAccepted, StaysInside

(* A path that is refused has a component that is not an ordinary name, and *)
(* not just a slash at its end.                                            *)
LEMMA RefusedIsOdd ==
    ASSUME NEW p \in Paths, ~PathAccepted(p)
    PROVE  \E i \in 1 .. Len(p) : p[i] \notin {"a", "."} /\ (i = Len(p) => p[i] # "")
<1>0. Len(p) \in Nat
  BY DEF Paths
<1>1. \A i \in 2 .. Len(p) - 1 : i \in 1 .. Len(p) /\ i # Len(p)
  BY <1>0
<1>2. CASE p[1] = "" /\ Len(p) > 1
  <2>0. PICK n \in Nat : n = Len(p) /\ n > 1
    BY <1>0, <1>2
  <2>1. 1 \in 1 .. Len(p) /\ 1 # Len(p)
    <3>1. 1 \in 1 .. n /\ 1 # n
      BY <2>0
    <3> QED
      BY <2>0, <3>1
  <2>2. p[1] \notin {"a", "."}
    BY <1>2
  <2> QED
    BY <2>1, <2>2
<1>3. CASE \E i \in 1 .. Len(p) : p[i] \in {"..", "a..a"}
  BY <1>3
<1>4. CASE \E i \in 2 .. Len(p) - 1 : p[i] = ""
  BY <1>1, <1>4
<1> QED
  BY <1>2, <1>3, <1>4 DEF PathAccepted

(* The path of a request was accepted if anything is looked up for it. *)
PathOK(c) ==
    /\ Busy(c) /\ (step[c] = "respond" => status[c] # 400) => PathAccepted(path[c])
    /\ step[c] = "respond" /\ status[c] = 400 => ~PathAccepted(path[c])
    /\ Busy(c) => path[c] \in Requests

LEMMA PathInit == Init => \A c \in Conns : PathOK(c)
BY DEF Init, PathOK, Busy, RequestSteps

(* A check looks up what was accepted, and refuses nothing. *)
LEMMA PathStep ==
    ASSUME TypeOK, \A c \in Conns : PathOK(c), [Next]_vars
    PROVE  (\A c \in Conns : PathOK(c))'
<1> SUFFICES ASSUME NEW c \in Conns PROVE PathOK(c)'
  OBVIOUS
<1> USE DEF TypeOK
<1>1. PathOK(c)
  OBVIOUS
<1>2. CASE /\ step'[c] = step[c] /\ path'[c] = path[c] /\ status'[c] = status[c]
  BY <1>1, <1>2 DEF PathOK, Busy
<1>3. CASE Accept(c) \/ Close(c)
  BY <1>3 DEF Accept, Close, PathOK, Busy, RequestSteps
<1>4. CASE BeginRequest(c)
  <2>1. PICK p \in Requests :
           /\ path' = [path EXCEPT ![c] = p]
           /\ IF PathAccepted(p)
                THEN step' = [step EXCEPT ![c] = "exists"]
                ELSE /\ step' = [step EXCEPT ![c] = "respond"]
                     /\ status' = [status EXCEPT ![c] = 400]
    BY <1>4 DEF BeginRequest
  <2>2. path'[c] = p
    BY <2>1
  <2>3. CASE PathAccepted(p)
    BY <2>1, <2>2, <2>3 DEF PathOK, Busy
  <2>4. CASE ~PathAccepted(p)
    BY <2>1, <2>2, <2>4 DEF PathOK, Busy
  <2> QED
    BY <2>3, <2>4
<1>5. CASE RequestStep(c)
  <2>1. CASE Respond(c)
    BY <2>1 DEF Respond, PathOK, Busy, RequestSteps
  <2>2. CASE ~Respond(c)
    <3>1. step[c] \in RequestSteps \ {"respond"} /\ path'[c] = path[c]
      BY <1>5, <2>2 DEF RequestStep, CheckExists, CheckIsDir, ReadFile, CheckIndexExists,
                        CheckIndexIsFile, ReadIndex, Fail, Goto, Reply, RequestSteps
    <3>2. PathAccepted(path[c]) /\ path[c] \in Requests
      BY <1>1, <3>1 DEF PathOK, Busy
    <3>3. step'[c] = "respond" => status'[c] # 400
      <4>1. CASE \E s \in Steps \ {"respond"} : Goto(c, s)
        BY <4>1 DEF Goto
      <4>2. CASE \E x \in {200, 403, 404, 500}, b \in Bodies : Reply(c, x, b)
        BY <4>2 DEF Reply
      <4> QED
        BY <1>5, <2>2, <4>1, <4>2, Outcomes
    <3> QED
      BY <3>1, <3>2, <3>3 DEF PathOK
  <2> QED
    BY <2>1, <2>2
<1>6. CASE Listen \/ Abort \/ Change \/ UNCHANGED vars
  BY <1>2, <1>6 DEF Listen, Abort, Change, vars, replyVars
<1>7. ASSUME NEW d \in Conns \ {c},
             Accept(d) \/ Close(d) \/ BeginRequest(d) \/ RequestStep(d)
      PROVE  PathOK(c)'
  BY <1>2, <1>7, OthersStay
<1> QED
  BY <1>3, <1>4, <1>5, <1>6, <1>7 DEF Next

LEMMA PathsCorrect == Spec => []\A c \in Conns : PathOK(c)
<1> DEFINE All == \A c \in Conns : PathOK(c)
<1>1. Init => All
  BY PathInit
<1>2. TypeOK /\ All /\ [Next]_vars => All'
  BY PathStep
<1> HIDE DEF All
<1>3. Spec => []All
  BY <1>1, <1>2, HttpTypeCorrect, PTL DEF Spec
<1> QED
  BY <1>3 DEF All

-----------------------------------------------------------------------------
(* Answers *)

(* An entry that cannot be read. *)
Locked(e) == e.node = "locked" \/ (e.node = "dir" /\ e.index = "locked")

(* What belongs to each entry. *)
LEMMA ExpectedIs ==
    ASSUME NEW e \in Entries
    PROVE  /\ e.node = "absent" => (ExpectedStatus(e) = 404 /\ ExpectedBody(e) = "error_page")
           /\ e.node \in Readable =>
                 ExpectedStatus(e) = 200 /\ ExpectedBody(e) = Content(e.node, "file")
           /\ e.node = "dir" /\ e.index \in Readable =>
                 ExpectedStatus(e) = 200 /\ ExpectedBody(e) = Content(e.index, "index")
           /\ Locked(e) => (ExpectedStatus(e) = 500 /\ ExpectedBody(e) = "error_page")
           /\ e.node = "dir" /\ e.index \in {"absent", "dir"} => (ExpectedStatus(e) = 403 /\ ExpectedBody(e) = "error_page")
           /\ e.node \in Kinds /\ e.index \in Kinds /\ (e.index # "absent" => e.node = "dir")
<1>1. e.node \in Kinds /\ e.index \in Kinds /\ (e.index # "absent" => e.node = "dir")
  BY DEF Entries
<1> QED
  BY <1>1 DEF ExpectedStatus, ExpectedBody, Target, Readable, Kinds, Locked

(* What the checks passed so far have seen of the directory. *)
ChecksSaw(c) ==
    /\ Busy(c) => entry \in seen[c]
    /\ step[c] \in {"is_dir", "read"} => \E e \in seen[c] : e.node # "absent"
    /\ step[c] = "read" => \E e \in seen[c] : e.node # "dir"
    /\ step[c] \in {"index_exists", "index_is_file", "read_index"} =>
          \E e \in seen[c] : e.node = "dir"
    /\ step[c] \in {"index_is_file", "read_index"} => \E e \in seen[c] : e.index # "absent"
    /\ step[c] = "read_index" => \E e \in seen[c] : e.index \in Readable \cup {"locked"}

(* The answer x, b for a request that saw S. *)
Stable(S, x, b) ==
    \A e \in Entries : S = {e} => ExpectedStatus(e) = x /\ ExpectedBody(e) = b
Seen(S, x, b) ==
    /\ x = 404 => \E e \in S : e.node = "absent"
    /\ x = 403 => (\E e \in S : e.node = "dir") /\ (\E e \in S : e.index \in {"absent", "dir"})
    /\ x = 500 => (\E e, g \in S : e # g) \/ \E e \in S : Locked(e)
    /\ x = 200 => \E e \in S : ExpectedStatus(e) = 200 /\ ExpectedBody(e) = b
    /\ x # 200 => b = "error_page"
Justified(S, x, b) == Stable(S, x, b) /\ Seen(S, x, b)

AnswerOK(c) == Answered(c) => Justified(seen[c], status[c], body[c])

(* What makes each kind of answer a justified one. *)
LEMMA Justified200 ==
    ASSUME NEW S \in SUBSET Entries, NEW e \in S, NEW b, (ExpectedStatus(e) = 200 /\ ExpectedBody(e) = b)
    PROVE  Justified(S, 200, b)
<1>1. ASSUME NEW g \in Entries, S = {g} PROVE (ExpectedStatus(g) = 200 /\ ExpectedBody(g) = b)
  <2>1. g = e
    BY <1>1
  <2> QED
    BY <2>1
<1>2. Stable(S, 200, b)
  BY <1>1 DEF Stable
<1>3. Seen(S, 200, b)
  BY DEF Seen
<1> QED
  BY <1>2, <1>3 DEF Justified

LEMMA Justified404 ==
    ASSUME NEW S \in SUBSET Entries, NEW e \in S, e.node = "absent"
    PROVE  Justified(S, 404, "error_page")
<1>1. ASSUME NEW g \in Entries, S = {g} PROVE (ExpectedStatus(g) = 404 /\ ExpectedBody(g) = "error_page")
  <2>1. g = e /\ e \in Entries
    BY <1>1
  <2> QED
    BY <2>1, ExpectedIs
<1>2. Stable(S, 404, "error_page")
  BY <1>1 DEF Stable
<1>3. Seen(S, 404, "error_page")
  BY DEF Seen
<1> QED
  BY <1>2, <1>3 DEF Justified

LEMMA Justified403 ==
    ASSUME NEW S \in SUBSET Entries, NEW e \in S, e.index \in {"absent", "dir"},
           \E g \in S : g.node = "dir"
    PROVE  Justified(S, 403, "error_page")
<1>1. ASSUME NEW g \in Entries, S = {g} PROVE (ExpectedStatus(g) = 403 /\ ExpectedBody(g) = "error_page")
  <2>1. g.node = "dir" /\ g.index \in {"absent", "dir"}
    BY <1>1
  <2> QED
    BY <2>1, ExpectedIs
<1>2. Stable(S, 403, "error_page")
  BY <1>1 DEF Stable
<1>3. Seen(S, 403, "error_page")
  BY DEF Seen
<1> QED
  BY <1>2, <1>3 DEF Justified

LEMMA Justified500 ==
    ASSUME NEW S \in SUBSET Entries, NEW e \in S, \A g \in Entries : S = {g} => Locked(g)
    PROVE  Justified(S, 500, "error_page")
<1>1. ASSUME NEW g \in Entries, S = {g}
      PROVE  ExpectedStatus(g) = 500 /\ ExpectedBody(g) = "error_page"
  <2>1. Locked(g)
    BY <1>1
  <2> QED
    BY <2>1, ExpectedIs DEF Locked
<1>2. (\E x, y \in S : x # y) \/ \E g \in S : Locked(g)
  <2>1. CASE S = {e}
    <3>1. e \in Entries
      OBVIOUS
    <3>2. Locked(e)
      BY <2>1, <3>1, Zenon
    <3> QED
      BY <3>2
  <2>2. CASE S # {e}
    <3>1. PICK g \in S : g # e
      BY <2>2
    <3> QED
      BY <3>1
  <2> QED
    BY <2>1, <2>2
<1>3. Stable(S, 500, "error_page")
  BY <1>1 DEF Stable
<1>4. Seen(S, 500, "error_page")
  BY <1>2 DEF Seen
<1> QED
  BY <1>3, <1>4 DEF Justified

(* Each check answers for what it and those before it saw. *)
LEMMA ReplyJustified ==
    ASSUME TypeOK, NEW c \in Conns, ChecksSaw(c),
           NEW x \in {200, 403, 404, 500}, NEW b \in Bodies, Reply(c, x, b), RequestStep(c), ~Respond(c)
    PROVE  Justified(seen[c], x, b)
<1> DEFINE S == seen[c]
<1>1. S \in SUBSET Entries /\ entry \in Entries
  BY DEF TypeOK
<1>2. entry \in S
  <2>1. step[c] \in RequestSteps
    BY DEF RequestStep, Respond, CheckExists, CheckIsDir, ReadFile, CheckIndexExists,
           CheckIndexIsFile, ReadIndex, RequestSteps
  <2> QED
    BY <2>1 DEF ChecksSaw, Busy
<1>3. ASSUME NEW y, NEW d, Reply(c, y, d) PROVE x = y /\ b = d
  <2>1. status'[c] = x /\ body'[c] = b /\ status'[c] = y /\ body'[c] = d
    BY <1>3 DEF Reply, TypeOK
  <2> QED
    BY <2>1
<1>4. ASSUME NEW s, Goto(c, s) PROVE s = "respond"
  <2>1. step'[c] = "respond" /\ step'[c] = s
    BY <1>4 DEF Reply, Goto, TypeOK
  <2> QED
    BY <2>1
<1> USE DEF Fail
<1>5. CASE CheckExists(c)
  <2>1. entry.node = "absent"
    BY <1>4, <1>5 DEF CheckExists
  <2>2. Reply(c, 404, "error_page")
    BY <1>5, <2>1, Zenon DEF CheckExists
  <2> QED
    <3>1. x = 404 /\ b = "error_page"
      BY <1>3, <2>2
    <3>2. Justified(S, 404, "error_page")
      BY <1>1, <1>2, <2>1, Justified404
    <3> QED
      BY <3>1, <3>2
<1>6. CASE CheckIsDir(c)
  BY <1>4, <1>6 DEF CheckIsDir
<1>7. CASE ReadFile(c)
  <2>1. CASE entry.node \in Readable
    <3>1. Reply(c, 200, Content(entry.node, "file"))
      BY <1>7, <2>1, Zenon DEF ReadFile
    <3>2. ExpectedStatus(entry) = 200 /\ ExpectedBody(entry) = Content(entry.node, "file")
      BY <1>1, <2>1, ExpectedIs
    <3> QED
      <4>1. x = 200 /\ b = Content(entry.node, "file")
        BY <1>3, <3>1
      <4>2. Justified(S, 200, Content(entry.node, "file"))
        BY <1>1, <1>2, <3>2, Justified200
      <4> QED
        BY <4>1, <4>2
  <2>2. CASE entry.node \notin Readable
    <3>1. Reply(c, 500, "error_page")
      BY <1>7, <2>2 DEF ReadFile
    <3>2. (\E e \in S : e.node # "absent") /\ (\E e \in S : e.node # "dir")
      BY <1>7 DEF ReadFile, ChecksSaw
    <3>3. ASSUME NEW g \in Entries, S = {g}
          PROVE  Locked(g)
      <4>1. g = entry /\ g.node \notin Readable \cup {"absent", "dir"}
        BY <1>2, <2>2, <3>2, <3>3
      <4>2. g.node \in Kinds /\ (g.index # "absent" => g.node = "dir")
        BY ExpectedIs
      <4> QED
        BY <4>1, <4>2 DEF Kinds, Readable, Locked
    <3> QED
      <4>1. x = 500 /\ b = "error_page"
        BY <1>3, <3>1
      <4>2. Justified(S, 500, "error_page")
        BY <1>1, <1>2, <3>3, Justified500
      <4> QED
        BY <4>1, <4>2
  <2> QED
    BY <2>1, <2>2
<1>8. CASE CheckIndexExists(c)
  <2>1. entry.index = "absent" /\ \E e \in S : e.node = "dir"
    BY <1>4, <1>8 DEF CheckIndexExists, ChecksSaw
  <2>2. Reply(c, 403, "error_page")
    BY <1>8, <2>1, Zenon DEF CheckIndexExists
  <2> QED
    <3>1. x = 403 /\ b = "error_page"
      BY <1>3, <2>2
    <3>2. Justified(S, 403, "error_page")
      BY <1>1, <1>2, <2>1, Justified403
    <3> QED
      BY <3>1, <3>2
<1>9. CASE CheckIndexIsFile(c)
  <2>0. entry.index \notin Readable \cup {"locked"}
    BY <1>4, <1>9 DEF CheckIndexIsFile
  <2>1. Reply(c, 403, "error_page")
    BY <1>9, <2>0, Zenon DEF CheckIndexIsFile
  <2>2. entry.index \in {"absent", "dir"}
    BY <1>1, <2>0, ExpectedIs DEF Kinds, Readable
  <2>3. \E e \in S : e.node = "dir"
    BY <1>9 DEF CheckIndexIsFile, ChecksSaw
  <2> QED
    <3>1. x = 403 /\ b = "error_page"
      BY <1>3, <2>1
    <3>2. Justified(S, 403, "error_page")
      BY <1>1, <1>2, <2>2, <2>3, Justified403
    <3> QED
      BY <3>1, <3>2
<1>10. CASE ReadIndex(c)
  <2>1. CASE entry.index \in Readable
    <3>1. Reply(c, 200, Content(entry.index, "index"))
      BY <1>10, <2>1, Zenon DEF ReadIndex
    <3>2. ExpectedStatus(entry) = 200 /\ ExpectedBody(entry) = Content(entry.index, "index")
      <4>1. entry.node = "dir"
        BY <1>1, <2>1, ExpectedIs DEF Readable
      <4> QED
        BY <1>1, <2>1, <4>1, ExpectedIs
    <3> QED
      <4>1. x = 200 /\ b = Content(entry.index, "index")
        BY <1>3, <3>1
      <4>2. Justified(S, 200, Content(entry.index, "index"))
        BY <1>1, <1>2, <3>2, Justified200
      <4> QED
        BY <4>1, <4>2
  <2>2. CASE entry.index \notin Readable
    <3>1. Reply(c, 500, "error_page")
      BY <1>10, <2>2 DEF ReadIndex
    <3>2. (\E e \in S : e.node = "dir") /\ (\E e \in S : e.index \in Readable \cup {"locked"})
      BY <1>10 DEF ReadIndex, ChecksSaw
    <3>3. ASSUME NEW g \in Entries, S = {g}
          PROVE  Locked(g)
      BY <1>2, <2>2, <3>2, <3>3 DEF Locked
    <3> QED
      <4>1. x = 500 /\ b = "error_page"
        BY <1>3, <3>1
      <4>2. Justified(S, 500, "error_page")
        BY <1>1, <1>2, <3>3, Justified500
      <4> QED
        BY <4>1, <4>2
  <2> QED
    BY <2>1, <2>2
<1> QED
  BY <1>5, <1>6, <1>7, <1>8, <1>9, <1>10 DEF RequestStep

(* Passing a check, one has seen what the check asks for. *)
LEMMA CheckSees ==
    ASSUME TypeOK, NEW c \in Conns, ChecksSaw(c), RequestStep(c), ~Respond(c)
    PROVE  ChecksSaw(c)'
<1>1. step[c] \in RequestSteps \ {"respond"}
  BY DEF RequestStep, CheckExists, CheckIsDir, ReadFile, CheckIndexExists,
         CheckIndexIsFile, ReadIndex, RequestSteps
<1>2. entry \in seen[c]
  BY <1>1 DEF ChecksSaw, Busy
<1>3. CASE \E x \in {200, 403, 404, 500}, b \in Bodies : Reply(c, x, b)
  <2>1. step'[c] = "respond" /\ seen'[c] = seen[c] /\ entry' = entry
    BY <1>3 DEF Reply, TypeOK, dirVars
  <2> QED
    BY <1>2, <2>1 DEF ChecksSaw
<1>4. ASSUME NEW s \in Steps \ {"respond"}, Goto(c, s) PROVE ChecksSaw(c)'
  <2>1. step'[c] = s /\ seen'[c] = seen[c] /\ entry' = entry
    BY <1>4 DEF Goto, TypeOK, dirVars
  <2>2. ASSUME NEW x, NEW b, Reply(c, x, b) PROVE FALSE
    BY <1>4, <2>1, <2>2 DEF Reply, TypeOK
  <2> USE DEF Fail
  <2>3. CASE CheckExists(c)
    <3>1. entry.node # "absent" /\ Goto(c, "is_dir")
      BY <2>2, <2>3 DEF CheckExists
    <3>2. s = "is_dir"
      BY <2>1, <3>1 DEF Goto, TypeOK
    <3> QED
      BY <1>2, <2>1, <3>1, <3>2 DEF ChecksSaw
  <2>4. CASE CheckIsDir(c)
    <3>1. s = IF entry.node = "dir" THEN "index_exists" ELSE "read"
      BY <2>1, <2>4 DEF CheckIsDir, Goto, TypeOK
    <3>2. \E e \in seen[c] : e.node # "absent"
      BY <2>4 DEF CheckIsDir, ChecksSaw
    <3> QED
      BY <1>2, <2>1, <3>1, <3>2 DEF ChecksSaw
  <2>5. ~ReadFile(c)
    BY <2>2 DEF ReadFile
  <2>6. CASE CheckIndexExists(c)
    <3>1. entry.index # "absent" /\ Goto(c, "index_is_file")
      BY <2>2, <2>6 DEF CheckIndexExists
    <3>2. s = "index_is_file" /\ \E e \in seen[c] : e.node = "dir"
      BY <2>1, <2>6, <3>1 DEF CheckIndexExists, ChecksSaw, Goto, TypeOK
    <3> QED
      BY <1>2, <2>1, <3>1, <3>2 DEF ChecksSaw
  <2>7. CASE CheckIndexIsFile(c)
    <3>1. entry.index \in Readable \cup {"locked"} /\ Goto(c, "read_index")
      BY <2>2, <2>7 DEF CheckIndexIsFile
    <3>2. /\ s = "read_index" /\ \E e \in seen[c] : e.node = "dir"
          /\ \E e \in seen[c] : e.index # "absent"
      BY <2>1, <2>7, <3>1 DEF CheckIndexIsFile, ChecksSaw, Goto, TypeOK
    <3> QED
      BY <1>2, <2>1, <3>1, <3>2 DEF ChecksSaw
  <2>8. ~ReadIndex(c)
    BY <2>2 DEF ReadIndex
  <2> QED
    BY <2>3, <2>4, <2>5, <2>6, <2>7, <2>8 DEF RequestStep
<1> QED
  BY <1>3, <1>4, Outcomes

(* A change that a request meets leaves its answer a justified one: what   *)
(* it saw before is still seen, and it no longer stood still.              *)
LEMMA ChangeKeeps ==
    ASSUME TypeOK, NEW c \in Conns, ChecksSaw(c), AnswerOK(c), Change
    PROVE  ChecksSaw(c)' /\ AnswerOK(c)'
<1>0. /\ step' = step /\ status' = status /\ body' = body /\ entry' # entry
      /\ seen' = [d \in Conns |-> IF Busy(d) THEN seen[d] \cup {entry'} ELSE seen[d]]
  BY DEF Change, replyVars
<1>1. CASE ~Busy(c)
  <2>1. step'[c] \notin RequestSteps
    BY <1>0, <1>1 DEF Busy
  <2> QED
    BY <2>1 DEF ChecksSaw, AnswerOK, Answered, Busy, RequestSteps
<1>2. CASE Busy(c)
  <2>1. seen'[c] = seen[c] \cup {entry'} /\ entry \in seen[c]
    BY <1>0, <1>2 DEF ChecksSaw
  <2>2. ChecksSaw(c)'
    BY <1>0, <2>1 DEF ChecksSaw
  <2>3. ASSUME Answered(c)' PROVE Justified(seen[c], status[c], body[c])'
    <3>1. Seen(seen[c], status[c], body[c])
      BY <1>0, <2>3 DEF Answered, AnswerOK, Justified
    <3>2. Seen(seen'[c], status[c], body[c])
      <4>1. \A e \in seen[c] : e \in seen'[c]
        BY <2>1
      <4> QED
        BY <3>1, <4>1 DEF Seen
    <3>3. Stable(seen'[c], status[c], body[c])
      <4>1. entry \in seen'[c] /\ entry' \in seen'[c]
        BY <2>1
      <4> QED
        BY <1>0, <4>1 DEF Stable
    <3>4. Justified(seen'[c], status[c], body[c])
      BY <3>2, <3>3 DEF Justified
    <3> QED
      BY <1>0, <3>4
  <2> QED
    BY <2>2, <2>3 DEF AnswerOK
<1> QED
  BY <1>1, <1>2

(* What a connection has seen, and its answer, along every step. *)
SawAndOK(c) == ChecksSaw(c) /\ AnswerOK(c)

LEMMA AnswerStep ==
    ASSUME TypeOK, \A c \in Conns : SawAndOK(c), [Next]_vars
    PROVE  (\A c \in Conns : SawAndOK(c))'
<1> SUFFICES ASSUME NEW c \in Conns PROVE SawAndOK(c)'
  OBVIOUS
<1>1. ChecksSaw(c) /\ AnswerOK(c)
  BY DEF SawAndOK
<1>2. CASE /\ step'[c] = step[c] /\ seen'[c] = seen[c] /\ status'[c] = status[c]
           /\ body'[c] = body[c] /\ entry' = entry
  <2>1. ChecksSaw(c)'
    BY <1>1, <1>2 DEF ChecksSaw, Busy
  <2>2. AnswerOK(c)'
    BY <1>1, <1>2 DEF AnswerOK, Answered
  <2> QED
    BY <2>1, <2>2 DEF SawAndOK
<1>3. CASE Listen \/ Abort \/ UNCHANGED vars
  BY <1>2, <1>3 DEF Listen, Abort, vars, replyVars, dirVars
<1>4. CASE Change
  BY <1>1, <1>4, ChangeKeeps DEF SawAndOK
<1>5. CASE Accept(c) \/ Close(c) \/ Respond(c)
  <2>1. step'[c] \in {"closed", "gone", "waiting"}
    BY <1>5 DEF Accept, Close, Respond, TypeOK
  <2> QED
    BY <2>1 DEF SawAndOK, ChecksSaw, AnswerOK, Answered, Busy, RequestSteps
<1>6. CASE BeginRequest(c)
  <2>1. seen'[c] = {entry} /\ entry' = entry
    BY <1>6 DEF BeginRequest, TypeOK, dirVars
  <2>2. step'[c] = "exists" \/ (step'[c] = "respond" /\ status'[c] = 400)
    <3>1. PICK p \in Requests :
             IF PathAccepted(p)
               THEN step' = [step EXCEPT ![c] = "exists"]
               ELSE /\ step' = [step EXCEPT ![c] = "respond"]
                    /\ status' = [status EXCEPT ![c] = 400]
      BY <1>6 DEF BeginRequest
    <3> QED
      BY <3>1 DEF TypeOK
  <2> QED
    BY <2>1, <2>2 DEF SawAndOK, ChecksSaw, AnswerOK, Answered
<1>7. CASE RequestStep(c) /\ ~Respond(c)
  <2>1. ChecksSaw(c)'
    BY <1>1, <1>7, CheckSees
  <2>2. CASE \E s \in Steps \ {"respond"} : Goto(c, s)
    <3>1. step'[c] # "respond"
      BY <2>2 DEF Goto, TypeOK
    <3> QED
      BY <2>1, <3>1 DEF SawAndOK, AnswerOK, Answered
  <2>3. ASSUME NEW x \in {200, 403, 404, 500}, NEW b \in Bodies, Reply(c, x, b)
        PROVE  SawAndOK(c)'
    <3>1. Justified(seen[c], x, b)
      BY <1>1, <1>7, <2>3, ReplyJustified
    <3>2. seen'[c] = seen[c] /\ status'[c] = x /\ body'[c] = b
      BY <2>3 DEF Reply, TypeOK
    <3> QED
      BY <2>1, <3>1, <3>2 DEF SawAndOK, AnswerOK
  <2> QED
    BY <1>7, <2>2, <2>3, Outcomes
<1>8. ASSUME NEW d \in Conns \ {c},
             Accept(d) \/ Close(d) \/ BeginRequest(d) \/ RequestStep(d)
      PROVE  SawAndOK(c)'
  BY <1>2, <1>8, OthersStay
<1> QED
  BY <1>3, <1>4, <1>5, <1>6, <1>7, <1>8 DEF Next

LEMMA AnswersCorrect == Spec => []\A c \in Conns : SawAndOK(c)
<1> DEFINE All == \A c \in Conns : SawAndOK(c)
<1>1. Init => All
  BY DEF Init, SawAndOK, ChecksSaw, AnswerOK, Answered, Busy, RequestSteps
<1>2. TypeOK /\ All /\ [Next]_vars => All'
  BY AnswerStep
<1> HIDE DEF All
<1>3. Spec => []All
  BY <1>1, <1>2, HttpTypeCorrect, PTL DEF Spec
<1> QED
  BY <1>3 DEF All

(* A directory that stands still while a request is served gets the answer *)
(* its entry deserves, through all the checks (http.rs:63-144).            *)
THEOREM StandingStill == Spec => []StableAnswer
<1>1. (\A c \in Conns : SawAndOK(c)) => StableAnswer
  BY DEF SawAndOK, AnswerOK, Justified, Stable, StableAnswer, Fits
<1> QED
  BY <1>1, AnswersCorrect, PTL

(* No path leads out of the directory by itself, and content from elsewhere *)
(* is served only where a link was there to follow (validation.rs:126-150, *)
(* http.rs:47-144).                                                        *)
THEOREM NoPathLeadsOut == Spec => []OnlyLinksLeadOut
<1> DEFINE Answers == \A c \in Conns : SawAndOK(c)
           AcceptedPaths == \A c \in Conns : PathOK(c)
<1>1. TypeOK /\ Answers /\ AcceptedPaths => OnlyLinksLeadOut
  <2> SUFFICES ASSUME TypeOK, Answers, AcceptedPaths, NEW c \in Conns, Busy(c),
                      step[c] = "respond" => status[c] # 400
               PROVE  /\ StaysInside(path[c])
                      /\ Answered(c) /\ body[c] = "outside" =>
                            \E e \in seen[c] : Target(e) = "outside"
    BY DEF OnlyLinksLeadOut
  <2>1. PathAccepted(path[c]) /\ path[c] \in Paths
    BY RequestsAssumption DEF PathOK
  <2>2. ASSUME Answered(c), body[c] = "outside"
        PROVE  \E e \in seen[c] : Target(e) = "outside"
    <3>1. Seen(seen[c], status[c], "outside")
      BY <2>2 DEF SawAndOK, AnswerOK, Justified
    <3>2. PICK e \in seen[c] : ExpectedBody(e) = "outside"
      BY <3>1 DEF Seen
    <3>3. Target(e) = "outside"
      BY <3>2 DEF ExpectedBody, Content
    <3> QED
      BY <3>3
  <2> QED
    BY <2>1, <2>2, AcceptedStaysInside
<1>2. Spec => []Answers
  BY AnswersCorrect
<1>3. Spec => []AcceptedPaths
  BY PathsCorrect
<1> HIDE DEF Answers, AcceptedPaths
<1> QED
  BY <1>1, <1>2, <1>3, HttpTypeCorrect, PTL

LEMMA EntriesFinite == IsFiniteSet(Entries)
<1> DEFINE All == [node : Kinds, index : Kinds]
           Pairs == Kinds \X Kinds
           f == [k \in Pairs |-> [node |-> k[1], index |-> k[2]]]
<1>1. IsFiniteSet(Pairs)
  <2>1. IsFiniteSet({}) /\ IsFiniteSet({"absent"}) /\ IsFiniteSet({"absent", "file"})
    <3>1. IsFiniteSet({"absent"})
      BY FS_Singleton
    <3>2. IsFiniteSet({"absent"} \cup {"file"})
      BY <3>1, FS_AddElement
    <3>3. {"absent"} \cup {"file"} = {"absent", "file"}
      OBVIOUS
    <3> QED
      BY <3>1, <3>2, <3>3, FS_EmptySet
  <2>2. IsFiniteSet({"absent", "file"} \cup {"locked"})
    BY <2>1, FS_AddElement
  <2>3. IsFiniteSet(({"absent", "file"} \cup {"locked"}) \cup {"dir"})
    BY <2>2, FS_AddElement
  <2>4. IsFiniteSet((({"absent", "file"} \cup {"locked"}) \cup {"dir"}) \cup {"outside"})
    BY <2>3, FS_AddElement
  <2>5. (({"absent", "file"} \cup {"locked"}) \cup {"dir"}) \cup {"outside"} = Kinds
    BY DEF Kinds
  <2> QED
    BY <2>4, <2>5, FS_Product
<1>2. f \in Surjection(Pairs, All)
  <2>1. f \in [Pairs -> All]
    OBVIOUS
  <2>2. ASSUME NEW e \in All PROVE \E k \in Pairs : f[k] = e
    <3>1. <<e.node, e.index>> \in Pairs /\ f[<<e.node, e.index>>] = [node |-> e.node, index |-> e.index]
      OBVIOUS
    <3>2. e = [node |-> e.node, index |-> e.index]
      OBVIOUS
    <3> QED
      BY <3>1, <3>2
  <2> QED
    BY <2>1, <2>2 DEF Surjection
<1>3. IsFiniteSet(All)
  BY <1>1, <1>2, FS_Surjection
<1>4. Entries \in SUBSET All
  BY DEF Entries
<1> QED
  BY <1>3, <1>4, FS_Subset

(* Two values seen are more than one. *)
LEMMA TwoSeen ==
    ASSUME NEW S \in SUBSET Entries, NEW e \in S, NEW g \in S, e # g
    PROVE  Cardinality(S) > 1
<1>1. IsFiniteSet(S)
  BY EntriesFinite, FS_Subset
<1>2. Cardinality(S) \in Nat
  BY <1>1, FS_CardinalityType
<1>3. Cardinality(S) # 0 /\ Cardinality(S) # 1
  BY <1>1, FS_EmptySet, FS_Singleton
<1> QED
  BY <1>2, <1>3

(* An answer is never made up (http.rs:63-144): whatever changed between   *)
(* the checks, the request saw what its answer says, and only an odd path  *)
(* is refused (validation.rs:126-150).                                     *)
THEOREM NeverMadeUp == Spec => []AnswerJustified
<1> DEFINE Answers == \A c \in Conns : SawAndOK(c)
           AcceptedPaths == \A c \in Conns : PathOK(c)
<1>1. TypeOK /\ Answers /\ AcceptedPaths => AnswerJustified
  <2> SUFFICES ASSUME TypeOK, Answers, AcceptedPaths PROVE AnswerJustified
    OBVIOUS
  <2>1. ASSUME NEW c \in Conns, step[c] = "respond", status[c] = 400
        PROVE  \E i \in 1 .. Len(path[c]) :
                  path[c][i] \notin {"a", "."} /\ (i = Len(path[c]) => path[c][i] # "")
    <3>1. ~PathAccepted(path[c]) /\ path[c] \in Paths
      BY <2>1, RequestsAssumption DEF PathOK, Busy, RequestSteps
    <3> QED
      BY <3>1, RefusedIsOdd
  <2>2. ASSUME NEW c \in Conns, Answered(c)
        PROVE  /\ status[c] = 404 => \E e \in seen[c] : e.node = "absent"
               /\ status[c] = 403 => /\ \E e \in seen[c] : e.node = "dir"
                                     /\ \E e \in seen[c] : e.index \in {"absent", "dir"}
               /\ status[c] = 500 => \/ Cardinality(seen[c]) > 1
                                     \/ \E e \in seen[c] : Target(e) = "locked"
               /\ status[c] = 200 => \E e \in seen[c] : Fits(e, c)
    <3>1. Seen(seen[c], status[c], body[c]) /\ seen[c] \in SUBSET Entries
      BY <2>2 DEF SawAndOK, AnswerOK, Justified, TypeOK
    <3>2. ASSUME status[c] = 500
          PROVE  Cardinality(seen[c]) > 1 \/ \E e \in seen[c] : Target(e) = "locked"
      <4>1. (\E e, g \in seen[c] : e # g) \/ \E e \in seen[c] : Locked(e)
        BY <3>1, <3>2 DEF Seen
      <4> QED
        BY <3>1, <4>1, TwoSeen DEF Locked, Target
    <3> QED
      BY <3>1, <3>2 DEF Seen, Fits
  <2> QED
    BY <2>1, <2>2 DEF AnswerJustified
<1>2. Spec => []AcceptedPaths
  BY PathsCorrect
<1>3. Spec => []Answers
  BY AnswersCorrect
<1> HIDE DEF Answers, AcceptedPaths
<1> QED
  BY <1>1, <1>2, <1>3, HttpTypeCorrect, PTL

=============================================================================
