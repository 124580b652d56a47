------------------------------ MODULE MCStartup ------------------------------
(***************************************************************************)
(* Two processes started in /home, again and again, with every kind of     *)
(* option that makes a difference.  /srv and /home/srv are directories,    *)
(* /new becomes one if a log is put there.  All of them prepare one        *)
(* database, which begins in every state a file can be in.                 *)
(***************************************************************************)
EXTENDS Startup

MCPath ==
  [w \in {"/srv", "/srv/", "srv", "/", "/new", "/new/log", "/none/db", "/home/db"} |->
     CASE w = "/srv" -> <<"/", "srv">>
       [] w = "/srv/" -> <<"/", "srv", "/">>
       [] w = "srv" -> <<"srv">>
       [] w = "/" -> <<"/">>
       [] w = "/new" -> <<"/", "new">>
       [] w = "/new/log" -> <<"/", "new", "/", "log">>
       [] w = "/none/db" -> <<"/", "none", "/", "db">>
       [] w = "/home/db" -> <<"/", "home", "/", "http-server.db">>]

MCNumber ==
  [w \in {"0", "-1", "3", "8080", "65616"} |->
     CASE w = "0" -> 0
       [] w = "-1" -> -1
       [] w = "3" -> 3
       [] w = "8080" -> 8080
       [] w = "65616" -> 65616]

Home == <<"home">>

MCFirstDirs == {<<>>, Home, <<"srv">>, <<"home", "srv">>}

MCDbFiles == {<<"home", "http-server.db">>}

\* Accepted, refused for what they say, and refused for what is there.
MCArgvs ==
  {<<>>,
   <<"-d", "/srv/", "-p", "8080">>,
   <<"-d", "srv">>,
   <<"-d", "/">>,
   <<"-D", "/home/db", "-d", "/new">>,
   <<"-l", "/new/log", "-p", "65616">>,
   <<"-D", "/none/db">>,
   <<"-t", "-1">>,
   <<"-p", "x">>,
   <<"-b", "3", "-h">>,
   <<"-p">>,
   <<"-v", "-V", "-t", "0">>}

\* -v 3, before and after another option.
VerboseArgvs ==
  {<<"-p", "8080", "-v", "3">>, <<"-v", "3", "-p", "8080">>}

\* -d of README.md, with a directory below.
ReadmeArgvs == {<<>>, <<"-d", "srv">>}
=============================================================================
