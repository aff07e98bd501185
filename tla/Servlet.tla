------------------------------ MODULE Servlet -------------------------------
(***************************************************************************)
(* ServletDispatcher (http/servlet.cpp) over URI paths (uri.rl): a request *)
(* path is normalized in place and looked up, the whole path first and     *)
(* then ever shorter ones.  A path is its segments; a leading empty one    *)
(* makes it absolute, a trailing one is a trailing slash.  Indices count   *)
(* from 0 as in the code.                                                  *)
(***************************************************************************)
EXTENDS Integers, Sequences, FiniteSets, SequencesExt

CONSTANTS
    Hosts,         \* hosts of requests, and "" where none is defined
    Requests,      \* paths of requests, with segments "", "." and ".." among others
    MaxServlets,   \* bound on the registered ones
    Servlets       \* what may be registered: [host, path], the path normalized, "*" for
                   \* a wildcard

VARIABLES
    m_enableWildcard,
    m_servlets,    \* registered: [host, path]
    phase,         \* "register", "normalize", "find", "done"
    uri,           \* [host, path]: the URI before it is normalized
    path,          \* its path, normalized
    segments,      \* the path in removeDotComponents(), then the one looked for
    i,             \* removeDotComponents(): the index of its loop
    vhost,         \* find: the host whose servlets are searched
    servlet        \* what getServlet() returns, or NoServlet

servletVars == <<m_enableWildcard, m_servlets, phase, uri, path, segments, i, vhost, servlet>>

NoServlet == [host |-> "", path |-> <<>>]

isAbsolute(p) == Len(p) > 1 /\ p[1] = ""

isWildcardPath(p) == \E k \in 1..Len(p) : p[k] = "*"

ServletInit == /\ m_enableWildcard \in BOOLEAN
               /\ m_servlets = {} /\ phase = "register"
               /\ uri = NoServlet /\ path = <<>> /\ segments = <<>> /\ i = 0 /\ vhost = "" /\ servlet = NoServlet

registerServlet(r) ==
    /\ phase = "register" /\ Cardinality(m_servlets) < MaxServlets
    /\ r \notin m_servlets
    /\ m_servlets' = m_servlets \cup {r}
    /\ UNCHANGED <<m_enableWildcard, phase, uri, path, segments, i, vhost, servlet>>

Request(host, p) ==
    /\ phase = "register" /\ phase' = "normalize"
    /\ uri' = [host |-> host, path |-> p] /\ segments' = p /\ i' = 0
    /\ UNCHANGED <<m_enableWildcard, m_servlets, path, vhost, servlet>>

\* removeDotComponents(), one turn of its loop: from segment s[k] on n are erased and
\* the index moves.
Erase(s, k, n) == SubSeq(s, 1, k) \o SubSeq(s, k + n + 1, Len(s))

Turn(s, k) ==
    LET seg == s[k + 1]
        last == k + 1 = Len(s)
    IN CASE seg = "." /\ last -> [s |-> Append(Front(s), ""), k |-> k]
         [] seg = "." /\ ~last -> [s |-> Erase(s, k, 1), k |-> k - 1]
         [] seg = ".." /\ (k = 0 \/ (k = 1 /\ s[1] = "")) -> [s |-> Erase(s, k, 1), k |-> k - 1]
         [] seg = ".." /\ k > 0 /\ ~(k = 1 /\ s[1] = "") /\ last ->
                [s |-> Append(SubSeq(s, 1, k - 1), ""), k |-> k - 1]
         [] seg = ".." /\ k > 0 /\ ~(k = 1 /\ s[1] = "") /\ ~last -> [s |-> Erase(s, k - 1, 2), k |-> k - 2]
         [] OTHER -> [s |-> s, k |-> k]

\* Mutant of removeDotComponents: after "x/.." is erased the index goes back by one.
removeDotComponentsShort ==
    /\ phase = "normalize" /\ i < Len(segments)
    /\ LET t == Turn(segments, i)
       IN segments' = t.s /\ i' = (IF t.k = i - 2 THEN i - 1 ELSE t.k) + 1
    /\ UNCHANGED <<m_enableWildcard, m_servlets, phase, uri, path, vhost, servlet>>

removeDotComponents ==
    /\ phase = "normalize" /\ i < Len(segments)
    /\ LET t == Turn(segments, i) IN segments' = t.s /\ i' = t.k + 1
    /\ UNCHANGED <<m_enableWildcard, m_servlets, phase, uri, path, vhost, servlet>>

Normalized == /\ phase = "normalize" /\ i >= Len(segments)
              /\ phase' = "find" /\ vhost' = uri.host
              /\ path' = segments
              /\ UNCHANGED <<m_enableWildcard, m_servlets, uri, segments, i, servlet>>

wildcardPathMatch(wild, p) == Len(wild) = Len(p) /\ \A k \in 1..Len(p) : wild[k] \in {"*", p[k]}

\* Path::cmp(): the greatest wildcard path is tried first; "*" is less than a letter,
\* though not than every character.
Order == <<"", "!", "*", ".", "..", "a">>
Weight == [seg \in Range(Order) |-> CHOOSE k \in 1..Len(Order) : Order[k] = seg]
Before(p, q) == \E k \in 1..Len(p) : /\ \A j \in 1..(k - 1) : p[j] = q[j]
                                     /\ Weight[p[k]] < Weight[q[k]]

Wild == {r \in m_servlets : /\ m_enableWildcard /\ r.host = vhost /\ isWildcardPath(r.path)
                            /\ wildcardPathMatch(r.path, segments)}

\* Mutant of Match: the wildcards are tried in the order of their paths.
MatchForward ==
    LET exact == [host |-> vhost, path |-> segments]
    IN /\ phase = "find"
       /\ \/ /\ exact \in m_servlets
             /\ servlet' = exact
          \/ /\ exact \notin m_servlets
             /\ \E r \in Wild : (\A q \in Wild : ~Before(q.path, r.path)) /\ servlet' = r
       /\ phase' = "done" /\ UNCHANGED <<m_enableWildcard, m_servlets, uri, path, segments, i, vhost>>

\* getServlet(): the plain servlets, then the wildcards, then a shorter path; without
\* any, the servlets of no host.
Match ==
    LET exact == [host |-> vhost, path |-> segments]
    IN /\ phase = "find"
       /\ \/ /\ exact \in m_servlets
             /\ servlet' = exact
          \/ /\ exact \notin m_servlets
             /\ \E r \in Wild : (\A q \in Wild : ~Before(r.path, q.path)) /\ servlet' = r
       /\ phase' = "done" /\ UNCHANGED <<m_enableWildcard, m_servlets, uri, path, segments, i, vhost>>

NoMatch == [host |-> vhost, path |-> segments] \notin m_servlets /\ Wild = {}

\* Mutant of Shorten: a segment goes with its slash.
ShortenWhole ==
    /\ phase = "find" /\ segments # <<>> /\ NoMatch
    /\ segments' = Front(segments)
    /\ UNCHANGED <<m_enableWildcard, m_servlets, phase, uri, path, i, vhost, servlet>>

Shorten ==
    /\ phase = "find" /\ segments # <<>> /\ NoMatch
    /\ segments' = IF Last(segments) # "" THEN Append(Front(segments), "") ELSE Front(segments)
    /\ UNCHANGED <<m_enableWildcard, m_servlets, phase, uri, path, i, vhost, servlet>>

FallBack ==
    /\ phase = "find" /\ segments = <<>>
    /\ IF vhost # "" THEN vhost' = "" /\ segments' = path /\ UNCHANGED phase
                     ELSE phase' = "done" /\ UNCHANGED <<vhost, segments>>
    /\ UNCHANGED <<m_enableWildcard, m_servlets, uri, path, i, servlet>>

ServletNext ==
    \/ \E r \in Servlets : registerServlet(r)
    \/ \E host \in Hosts, p \in {q \in Requests : isAbsolute(q)} : Request(host, p)
    \/ removeDotComponents \/ Normalized \/ Match \/ Shorten \/ FallBack

ServletSpec == ServletInit /\ [][ServletNext]_servletVars

-----------------------------------------------------------------------------
\* RFC 3986, 5.2.4, for an absolute path: one pass with a stack; a dot segment at the
\* end leaves its slash.
Resolved(p) ==
    LET Stack[n \in 1..Len(p)] ==
            IF n = 1 THEN <<>>
            ELSE CASE p[n] = "." -> Stack[n - 1]
                   [] p[n] = ".." -> IF Stack[n - 1] = <<>> THEN <<>> ELSE Front(Stack[n - 1])
                   [] OTHER -> Append(Stack[n - 1], p[n])
    IN <<"">> \o Stack[Len(p)] \o (IF Last(p) \in {".", ".."} THEN <<"">> ELSE <<>>)

\* How much of p a registered path covers: its first n segments, or the directory of
\* the n-th, which is less.
Covers(r, p) ==
    IF isWildcardPath(r.path) /\ ~m_enableWildcard THEN {}
    ELSE {2 * n : n \in {n \in 1..Len(p) : wildcardPathMatch(r.path, SubSeq(p, 1, n))}}
         \cup {2 * n - 1 : n \in {n \in 1..Len(p) : wildcardPathMatch(r.path, Append(SubSeq(p, 1, n - 1), ""))}}

Better(r, q, p) == \E n \in Covers(r, p) : \A k \in Covers(q, p) : k < n

LeftmostStar(p) == CHOOSE k \in 1..Len(p) : p[k] = "*" /\ \A j \in 1..(k - 1) : p[j] # "*"

\* The servlets that a request may reach: those of its host that cover its path, or if
\* there are none those of no host.
Candidates ==
    LET mine == {r \in m_servlets : r.host = uri.host /\ Covers(r, path) # {}}
    IN IF mine # {} THEN mine ELSE {r \in m_servlets : r.host = "" /\ Covers(r, path) # {}}

\* Wildcards that cover as much of the path as the one that was chosen.
Rivals == {r \in Candidates : /\ isWildcardPath(servlet.path) /\ isWildcardPath(r.path)
                              /\ ~Better(servlet, r, path)}

\* A request is answered by the servlet that covers most of its path, among those of
\* its host if any of them covers it, else among those of no host; a plain one wins
\* over a wildcard that covers as much, and a wildcard with the right-most left-most
\* "*" over the others, unless what the other has in its place sorts before "*"; and only
\* if none covers it there is none.
DispatchesMostSpecific ==
    phase = "done" =>
       IF Candidates = {} THEN servlet = NoServlet
       ELSE /\ servlet \in Candidates
            /\ \A r \in Candidates :
                  /\ ~Better(r, servlet, path)
                  /\ isWildcardPath(servlet.path) /\ ~isWildcardPath(r.path) => Better(servlet, r, path)
            /\ \A r \in Rivals :
                  LET k == LeftmostStar(servlet.path)
                  IN k >= LeftmostStar(r.path) \/ Weight[r.path[k]] < Weight["*"]

\* servlet.h: if more than one path matches, "wildcard path with right-most postion of the
\* left-most '*'" takes precedence.  It does not hold for a segment that sorts before
\* "*", an empty one for instance.
RightmostStarWins ==
    (phase = "done" /\ servlet # NoServlet) =>
        \A r \in Rivals : LeftmostStar(servlet.path) >= LeftmostStar(r.path)

\* removeDotComponents() ends and, on an absolute path, computes what RFC 3986 says,
\* except that "/.." and the like become a single empty segment.
PathResolved ==
    (phase \in {"find", "done"} /\ isAbsolute(uri.path)) =>
        \/ path = Resolved(uri.path)
        \/ path = <<"">> /\ Resolved(uri.path) = <<"", "">>

\* "A single, empty segment is invalid": normalize() makes no such path of one that
\* was valid.
PathStaysValid == (phase \in {"find", "done"} /\ isAbsolute(uri.path)) => path # <<"">>
=============================================================================
