----------------------------- MODULE MCSession -----------------------------
(***************************************************************************)
(* One transfer between lines of text, a prompt among them that may come   *)
(* in the same read as the sender's last packet.                           *)
(***************************************************************************)
EXTENDS Session

MCScript == <<"text1", "start", "data", "fin", "text2", "text3">>
MCText == {"text1", "text2", "text3"}

\* A session without a transfer.
MCTalk == <<"text1", "text2">>
MCTalkText == {"text1", "text2"}

\* On BSD the end of the shell takes the slave from every process, and the master has an end of
\* file; on Linux the pty lasts as long as rzh, which never closes its descriptor of the slave.
Either == {0, Fail}
Linux == {Fail}
=============================================================================
