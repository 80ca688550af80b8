------------------------------ MODULE MCNotices ------------------------------
(* Small instances of Notices for TLC. *)
EXTENDS Notices, TLC

\* The two jobs share the case and nothing else: digests with reminders off and any
\* channels; reminders by mail or none, with notices sent at once and no replies.
MCSettings ==
    {s \in [channels : SUBSET Channels, batched : BOOLEAN, reminders : BOOLEAN, replies : BOOLEAN] :
        /\ s.reminders => ~s.batched /\ s.channels \in {{}, {"email"}}
        /\ s.replies = ~s.reminders}
=============================================================================
