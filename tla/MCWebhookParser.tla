--------------------------- MODULE MCWebhookParser ---------------------------
EXTENDS WebhookParser

Data(words, severities, emails) ==
    {None} \union [word : words, severity : severities, reason : {"permanent"}, email : emails]
Ses(kinds, recipients) == {None} \union [kind : kinds, recipients : recipients]
To(a, d) == [email |-> a, diagnostic |-> d]

\* Every way to name and classify one event, contradictions and the words of
\* another field included.
MCObjects ==
    [word : {"hard_bounce", "soft_bounce", "bounce", "dropped", "complaint", "unsubscribe", "other"},
     data : Data({"bounce", "other"}, {"", "permanent", "temporary", "hard"}, {"a"}),
     bounce : Ses({"permanent", "hard", "transient", "undetermined"},
                  {<<>>, <<To("a", FALSE)>>, <<To("", FALSE), To("b", TRUE)>>}),
     status : {"", "4.x", "5.x"}, postmark : {"", "hard", "soft", "permanent"},
     email : {"", "a"}, destination : {""}, ids : {<<"">>}, reason : {"", "hard_bounce"}]

Plain(w, a, id) == [word |-> w, data |-> None, bounce |-> None, status |-> "", postmark |-> "",
                    email |-> a, destination |-> "", ids |-> id, reason |-> ""]
SesBounce(rs, id) == [Plain("bounce", "", id) EXCEPT
                        !.bounce = [kind |-> "permanent", recipients |-> rs]]

\* Objects that share ids, recipients or both, and elements that are rejected.
MCElements ==
    {SesBounce(<<To("a", FALSE), To("b", TRUE)>>, <<"", "ses:1">>),
     SesBounce(<<To("b", FALSE), To("", FALSE)>>, <<"", "ses:1">>),
     Plain("complaint", "a", <<"", "ses:1">>), Plain("unsubscribe", "a", <<"sg:1", "ses:1">>),
     Plain("hard_bounce", "b", <<"">>), Plain("bounce", "a", <<"">>),
     [Plain("unsubscribe", "", <<"sg:2">>) EXCEPT !.destination = "b"],
     Plain("other", "a", <<"sg:1">>), Plain("complaint", "", <<"">>), NotObject}
MCArrays == UNION {[1 .. n -> MCElements] : n \in 0 .. 2}

\* One object of any kind, or two arrays, possibly the same one twice.
MCSeries == {<<<<o>>>> : o \in MCObjects} \union {<<a, b>> : a, b \in MCArrays}

\* SES as its notifications are: the name of the event is in a key of its own.
MCNotification ==
    {<<<<[SesBounce(<<To("a", FALSE)>>, <<"", "ses:1">>) EXCEPT !.word = w]>>>> : w \in {"bounce", "other"}}
=============================================================================
