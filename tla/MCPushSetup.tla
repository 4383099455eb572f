---------------------------- MODULE MCPushSetup ----------------------------
(* Instances of PushSetup for TLC.                                          *)
EXTENDS PushSetup, TLC

CONSTANTS t1, t2
TwoThreads == {t1, t2}

\* Every call on the topic; those on the bucket are the same code.
OnTopic == {"createTopic", "subscribeTopic", "unsubscribeTopic", "isTopicSubscribed",
            "installPush", "getEndpoint"}

\* One program sets everything up, the other switches the subscription and looks.
Jobs == t1 :> OnTopic \ {"isTopicSubscribed"} @@
        t2 :> {"subscribeTopic", "unsubscribeTopic", "isTopicSubscribed"}

\* The statuses with a meaning; 503 is the refusal for reasons of the server's.
Meaningful == {200, 404, 409, 503}
=============================================================================
