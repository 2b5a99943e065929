----------------------------- MODULE MCProcess -----------------------------
(***************************************************************************)
(* Two families of invocations: every kind of argument for a process that  *)
(* has the three standard descriptors, and no argument but every number of *)
(* inherited descriptors, up to a full table.                              *)
(***************************************************************************)
EXTENDS Process

MCBlank == {"blank"}
MCSlash == "/"
MCChar == MCBlank \union {MCSlash, "a"}
MCDefaultCommand == <<"/", "a">>
MCExecutable == {<<"/", "a">>, <<"a">>}

Strings(n) == UNION {[1..k -> MCChar] : k \in 0..n}
Rz(s) == [opt |-> "rz", s |-> s]
Dir == [opt |-> "dir"]
Log == [opt |-> "logfile"]

Parts == {[kind |-> "empty"], [kind |-> "host"], [kind |-> "other"]}
         \union {[kind |-> "number", n |-> n] : n \in {-1, 0, 1, 15, 17, 31, 65}}
Addresses == [colon : BOOLEAN, left : Parts, right : Parts]
Connect(arg) == [opt |-> "connect", arg |-> arg]
ToPort(n) == Connect([colon |-> FALSE, left |-> [kind |-> "number", n |-> n],
                      right |-> [kind |-> "empty"]])
ToHost == Connect([colon |-> FALSE, left |-> [kind |-> "host"], right |-> [kind |-> "empty"]])

Arguments ==
  {<<Rz(s)>> : s \in Strings(4)} \union {<<Rz(r), Rz(s)>> : r \in Strings(2), s \in Strings(2)}
  \union {<<Connect(arg)>> : arg \in Addresses}
  \union {<<[opt |-> o, n |-> n]>> : o \in {"inma", "maou"}, n \in {-1, 0, 1, 2}}
  \union {<<>>, <<Log>>, <<Log, Log, Dir>>, <<Dir, Dir>>, <<[opt |-> "quiet"], Dir>>,
          <<ToPort(5), ToHost, Log>>, <<ToHost, ToPort(0)>>,
          <<[opt |-> "info"]>>, <<Log, [opt |-> "info"]>>, <<[opt |-> "unknown"]>>}

Crowds == SUBSET Standard \union {0..n : n \in 3..MaxFd}

MCInvocations ==
  [fds : {Standard}, argv : Arguments] \union [fds : Crowds, argv : {<<>>}]
  \union [fds : SUBSET Standard, argv : {<<Log>>}]
=============================================================================
