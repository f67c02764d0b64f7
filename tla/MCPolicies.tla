---------------------------- MODULE MCPolicies ----------------------------
(* Policies over texts that begin one another, so that bytes moved from one *)
(* field to the next would go unseen, and digests of the same length.       *)
EXTENDS Policies

(* Slot names 5 and 6, resources 3 and 4, mount points 1 and 2. *)
MCText ==
  [n \in 0..6 |->
     CASE n = 0 -> <<>>
       [] n = 1 -> <<47>>
       [] n = 2 -> <<47, 97>>
       [] n = 3 -> <<48, 48>>
       [] n = 4 -> <<48, 49>>
       [] n = 5 -> <<97>>
       [] n = 6 -> <<97, 97>>]

MCDomain ==
  [k \in Kinds |->
     CASE k = "layout"      -> <<100, 108>>
       [] k = "environment" -> <<100, 101>>
       [] k = "credentials" -> <<100, 99>>
       [] k = "limits"      -> <<100, 105>>
       [] k = "request"     -> <<100, 113>>
       [] k = "profile"     -> <<100, 112>>
       [] k = "evidence"    -> <<100, 118>>]

MCActionText == [a \in 0..3 |-> <<112, 97 + a>>]

Path == <<80, 65>>
TimeZone == <<84, 90>>
MCReserved == {Path, TimeZone}

(* A letter of an eight-bit locale. *)
MCLetters == {233}

A == <<65>>
AA == <<65, 65>>
Root == <<47>>
Tmp == <<47, 116>>
Digest == {<<48, 48>>, <<48, 49>>}
D0 == <<48, 48>>
Optional(S) == {<<>>} \cup {<<x>> : x \in S}

----------------------------------------------------------------------------
Bound ==
  {b \in [slot : {<<SourceTree, 5>>, <<SourceTree, 6>>, <<BuildWorkspace, 0>>},
          resource : {3, 4}, access : {ReadOnly, Writable}, mount : {1, 2}] :
     Bindable(b) /\ (b.slot[2] = 6 => b.resource = 3)}

Layouts1 ==
  [bindings : SeqOf(Bound, 2), working : {<<SourceTree, 5>>, <<BuildWorkspace, 0>>}]

Environment ==
  [path |-> <<Root>>, home |-> Root, tmp |-> Tmp, parallelism |-> 1, mask |-> 18,
   epoch |-> <<>>, network |-> 0, stdin |-> 0, stdout |-> 0, stderr |-> 0,
   variables |-> <<>>]

Variables == [name : {A, AA}, value : {<<>>, A}]

Environments ==
  {[Environment EXCEPT !.path = p, !.home = h] :
     p \in SeqOf({Root, Tmp}, 2), h \in {Root, Tmp}}
  \cup {[Environment EXCEPT !.variables = v] :
          v \in SeqOf(Variables, 2) \cup SeqOf(Variables, 1) \cup
                {<<[name |-> Path, value |-> A]>>}}
  \cup {[Environment EXCEPT !.parallelism = n, !.mask = m, !.epoch = e] :
          n \in {0, 1, 256}, m \in {0, 511, 512}, e \in Optional({-1, 0, 256})}
  \cup {[Environment EXCEPT !.network = n, !.stdin = i, !.stdout = o, !.stderr = e] :
          n \in {0, 2, 3}, i \in {0, 1}, o \in {0, 1}, e \in {0, 1, 2}}

Credentials ==
  [user : {0, 1}, group : {0, 2}, groups : SeqOf(0..2, 3), restricted : {TRUE}]
  \cup [user : {0}, group : {0}, groups : SeqOf({1, 256}, 2), restricted : BOOLEAN]

Limit == Optional({0, 1, 257})

Limits ==
  [cpu : Limit, memory : Limit, file : {<<>>, <<1>>}, open : {<<>>},
   processes : {<<>>, <<1>>}]
  \cup [cpu : {<<>>}, memory : {<<>>}, file : {<<>>, <<1>>}, open : {<<>>, <<1>>},
        processes : {<<>>, <<1>>}]

Request ==
  [language |-> A, program |-> D0, purpose |-> 0, action |-> <<>>,
   interpreter |-> D0, view |-> D0, layout |-> D0, environment |-> D0,
   credentials |-> D0, limits |-> D0, mode |-> 0, grace |-> <<>>,
   guarantees |-> <<0, 1>>]

Requests ==
  {[Request EXCEPT !.purpose = p, !.action = a, !.mode = m, !.grace = g] :
     p \in 0..2, a \in Optional({0, 3, 4}), m \in 0..1, g \in Optional({0, 1})}
  \cup {[Request EXCEPT !.language = l, !.program = p, !.interpreter = i,
           !.view = v] : l \in {A, AA}, p \in Digest, i \in Digest, v \in Digest}
  \cup {[Request EXCEPT !.layout = l, !.environment = e, !.credentials = c,
           !.limits = m] :
          l \in Digest, e \in Digest, c \in Digest, m \in Digest}
  \cup {[Request EXCEPT !.guarantees = g] : g \in SeqOf({0, 1, 17}, 2)}

Profiles == [backend : Digest, guarantees : SeqOf({0, 1, 17}, 2)]

Termination ==
  {[kind |-> 0, value |-> <<v>>, limit |-> <<>>] : v \in {0, 1, 255, 256}}
  \cup {[kind |-> 1, value |-> <<v>>, limit |-> <<>>] : v \in {0, 1, 9}}
  \cup {[kind |-> 2, value |-> <<>>, limit |-> <<>>]}
  \cup {[kind |-> 3, value |-> <<>>, limit |-> <<l>>] : l \in {0, 4, 5}}

Captures == Optional([count : {0, 1}, digest : Digest])

Failed(started, failure) ==
  [status |-> 1, start |-> started, request |-> D0, profile |-> D0,
   interpreter |-> IF started = 1 THEN <<D0>> ELSE <<>>, termination |-> <<>>,
   stdout |-> <<>>, stderr |-> <<>>, guarantees |-> <<0, 1>>,
   cleanup |-> started, failure |-> failure]

Evidence ==
  {[Failed(0, <<f>>) EXCEPT !.request = r, !.profile = p, !.guarantees = g] :
     f \in {0, 5, 9}, r \in Digest, p \in Digest, g \in {<<>>, <<0>>}}
  \cup {[Failed(1, <<11>>) EXCEPT !.termination = <<t>>, !.cleanup = 2] :
          t \in Termination}
  \cup {[Failed(1, <<10>>) EXCEPT !.termination = <<t>>, !.stdout = o,
           !.stderr = e] :
          t \in {x \in Termination : x.kind = 2}, o \in Captures, e \in Captures}
  \cup {[Failed(1, <<>>) EXCEPT !.status = 0, !.interpreter = <<i>>,
           !.termination = <<t>>, !.guarantees = g] :
          i \in Digest, g \in SeqOf({0, 1}, 2),
          t \in {x \in Termination : x.kind = 0 /\ x.value = <<0>>}}

(* Texts with the characters that the checks tell apart, and those beside   *)
(* the ends of the ranges they test.                                        *)
PathTexts == SeqOf({0, Dot, Slash, 97}, 6)

SlotTexts == SeqOf({0, 43, Dot, Slash, 57, Colon, 97, 233}, 3)

VariableTexts ==
  [name  : SeqOf({0, 49, Equals, 65, 84, 90, Underscore, 233}, 3),
   value : {<<>>, <<Equals>>, <<65, Equals>>, <<65, 0>>}]

DigestTexts == SeqOf({47, 48, 57, 58, 65, 70, 96, 97, 102, 103}, 3)

MCDeclarations ==
  [k \in Kinds \cup TextKinds |->
     CASE k = "layout"      -> Layouts1
       [] k = "environment" -> Environments
       [] k = "credentials" -> Credentials
       [] k = "limits"      -> Limits
       [] k = "request"     -> Requests
       [] k = "profile"     -> Profiles
       [] k = "evidence"    -> Evidence
       [] k = "path"        -> PathTexts
       [] k = "slot"        -> SlotTexts
       [] k = "variable"    -> VariableTexts
       [] k = "digest"      -> DigestTexts]
=============================================================================
