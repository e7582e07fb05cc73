--------------------------- MODULE MCScanPipeline ---------------------------
EXTENDS ScanPipeline

LOCAL Url(form, host, region, path) ==
    [form |-> form, host |-> host, region |-> region, decodes |-> TRUE, path |-> path]

\* A webhook request that moves dmz/<name>, its source named in s3:// form.
LOCAL Request(name) ==
    [decodes |-> TRUE, envelope |-> InputTopic, wellFormed |-> TRUE,
     url |-> Url("s3", "dmz", None, <<name>>), fileName |-> <<name>>,
     move |-> TRUE, clean |-> "clean", quarantine |-> "quarantine",
     callback |-> "webhook", hook |-> [auth |-> "bearer", secret |-> "s"], topic |-> None]

LOCAL Unmoved(e) == [e EXCEPT !.move = FALSE, !.clean = None, !.quarantine = None]
LOCAL Silent(e) == [e EXCEPT !.callback = "none", !.hook = None]

\* The same request twice: an operator replays it from the dead-letter topic.
ReplayedLog == <<Request("a"), Request("a")>>

\* One request, and whatever retries it.
SingleLog == <<Request("a")>>

\* An event without a bucket for an infected result, a request whose object is
\* already where a clean one belongs, a Bus callback without a move, and a
\* silent move.
MixedLog ==
    <<[Request("b") EXCEPT !.quarantine = None],
      [Request("a") EXCEPT !.url = Url("virtual", "clean", Region, <<"a">>)],
      [Unmoved(Request("b")) EXCEPT !.url = Url("path", None, None, <<"x", "..", "dmz", "b">>),
                                    !.callback = "kafka", !.hook = None, !.topic = "bus"],
      Silent(Request("b"))>>

\* Every combination of what validation looks at.
AllUrls ==
    {[Url(form, host, region, path) EXCEPT !.decodes = d] :
        form \in {"s3", "path", "virtual", "other"}, host \in {None, "dmz"},
        region \in {None, "us-east-1", "eu-west-1"},
        path \in {<<>>, <<"dmz">>, <<"dmz", "a">>, <<"dmz", ".">>, <<"dmz", "..", "a">>},
        d \in BOOLEAN}

AllHooks == [auth : {"no-auth", "bearer"}, secret : {None, "s"}] \cup {None}

AllMessages ==
    {[Request("a") EXCEPT !.decodes = f[1], !.envelope = f[2], !.wellFormed = f[3]] :
        f \in BOOLEAN \X {InputTopic, None} \X BOOLEAN}
    \cup {[Request("a") EXCEPT !.url = u] : u \in AllUrls}
    \cup {[Request("a") EXCEPT !.move = f[1], !.clean = f[2], !.quarantine = f[3],
                               !.callback = f[4], !.hook = f[5], !.topic = f[6]] :
             f \in BOOLEAN \X {None, "clean", "dmz"} \X {None, "quarantine", "dmz"}
                  \X {"none", "webhook", "kafka"} \X AllHooks \X {None, "bus", "input"}}

AllVerdicts == {"clean", "infected", "oversized"}
OneVerdict == {"clean"}
BigUpload == {<<"dmz", <<"b">>>>}
OnlyClean == {"clean"}
OnlyBus == {"bus"}
UsEast1 == "us-east-1"
=============================================================================
