--------------------------- MODULE MCNewsPipeline ---------------------------
(* Documents for NewsPipeline: stories about one or two drivers, told by an *)
(* official source, a journalist or anonymously, seen at one of the Time.   *)
EXTENDS NewsPipeline

CONSTANTS ver, ham, penalty, rain, bahrain, jeddah

Doc(matched, drivers, meeting, source, rumour, confirms, seen) ==
  [matched |-> matched, drivers |-> drivers, meeting_id |-> meeting, source |-> source,
   rumour |-> rumour, confirms |-> confirms, first_seen_at |-> seen]

Documents ==
  {Doc(<<penalty>>, {ver}, bahrain, s[1], s[2], s[3], t) :
     s \in {<<"fia", FALSE, FALSE>>, <<"fia", TRUE, FALSE>>, <<"social", FALSE, TRUE>>,
            <<"journalist", FALSE, FALSE>>},
     t \in Time}
  \cup {Doc(<<penalty>>, {ver}, jeddah, "journalist", TRUE, TRUE, 0),
        Doc(<<penalty, rain>>, {ver, ham}, bahrain, "fia", FALSE, FALSE, 1),
        Doc(<<penalty, rain>>, {}, bahrain, "social", FALSE, FALSE, 1)}

Scores == [s \in {"fia", "journalist", "social"} |->
             CASE s = "fia" -> 98 [] s = "journalist" -> 80 [] s = "social" -> 15]
Sources == {"fia"}
Rain == {rain}
Grid == [t \in {penalty, rain} |-> IF t = penalty THEN 5 ELSE None]
Times == {0, 1}
=============================================================================
