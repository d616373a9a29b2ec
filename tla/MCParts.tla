------------------------------ MODULE MCParts ------------------------------
(***************************************************************************)
(* The parts of a server that work on their own.  A behaviour is that of   *)
(* one of seven: a connection with requests at and around the limits,      *)
(* alone and one after the other; a cookie; threads that serve files;      *)
(* threads that load templates; a call of a template; the service on Unix  *)
(* and its clients; the service on Windows and its controllers.  The other *)
(* parts do not move, nor do they share anything with it.                  *)
(***************************************************************************)
EXTENDS HttpExchange, HttpCookie, StaticFileController, TemplateCache, Template,
        ServiceControl, ServiceManager, TLC

Plain == [head |-> <<"GET 1.1">>, body |-> << >>]
Old == [head |-> <<"GET 1.0">>, body |-> << >>]
Closing == [head |-> <<"GET 1.1", "Close">>, body |-> << >>]
Broken == [head |-> <<"Host">>, body |-> << >>]
WithBody(length, n) == [head |-> <<"GET 1.1", length>>, body |-> [i \in 1 .. n |-> "byte"]]
Folded == [head |-> <<"GET 1.1", "Length1", "more">>, body |-> << >>]
Negative == [head |-> <<"GET 1.1", "Negative">>, body |-> << >>]
Form == [head |-> <<"GET 1.1", "Form", "Length2">>, body |-> <<"byte", "byte">>]
Upload == [head |-> <<"GET 1.1", "Upload", "Length6">>,
           body |-> <<"Boundary", "FileB", "Empty", "line", "Boundary", "End">>]
TwoParts == [head |-> <<"GET 1.1", "Upload", "Length9">>,
             body |-> <<"Boundary", "FileB", "Empty", "line", "Boundary",
                        "FieldA", "Empty", "line", "End">>]
AtLimit == [head |-> <<"GET 1.1", "Upload", "Length12">>,
            body |-> <<"Boundary", "FileB", "Empty", "line", "line", "line", "line",
                       "line", "line", "line", "line", "End">>]

SmallScripts ==
  {<<Plain, Plain>>, <<Old, Plain>>, <<Closing, Plain>>, <<Broken>>,
   <<WithBody("Length2", 2), Plain>>, <<WithBody("Length9", 9)>>, <<Form>>,
   <<Folded, Plain>>, <<Upload>>, <<TwoParts>>, <<AtLimit>>, <<Negative, Plain>>}

SmallCookies ==
  {[NewCookie EXCEPT !.name = <<"n">>, !.value = v, !.Comment = c, !.maxAge = m,
                     !.Path = p, !.secure = f, !.httpOnly = f] :
     v \in {<<"v">>, <<"v", "=", "v">>, << >>}, c \in {<< >>, <<"c">>},
     m \in {<< >>, <<"3">>}, p \in {<< >>, <<"/">>}, f \in BOOLEAN}

SmallJars ==
  {<<[name |-> <<"n">>, value |-> v], [name |-> <<"m">>, value |-> w]>> :
     v, w \in {<<"v">>, << >>, <<"v", "=">>}} \cup {<<[name |-> <<"n">>, value |-> <<"=", "v">>]>>}

SmallTexts == BoundedSeq({"a", "=", ";", "\"", " "}, 4)

(* What the application has to take care of. *)
ASSUME CookiesAreReadable == CookiesReadable

SmallPieces ==
  [page |-> 1, folder |-> 1, up |-> 1, locked |-> 1]
SmallSuffixes ==
  [page |-> "png", folder |-> "", up |-> "css", locked |-> ""]
SmallState ==
  [page |-> "present", folder |-> "present", up |-> "absent", locked |-> "unreadable"]

SmallSizes == [de_DE |-> 2, de |-> 1, index |-> 1]
German == [exact |-> "de", language |-> "de"]
Germany == [exact |-> "de_DE", language |-> "de"]
SmallLocales == {<<Germany>>, <<German, Germany>>}

SmallTemplates ==
  BoundedSeq({"x", "if", "ifnot", "loop", "else", "end", "sub"}, 4)
    \cup BoundedSeq({"x", "if", "else", "end"}, 5)
Loop(n) == [call |-> "loop", value |-> FALSE, repetitions |-> n, text |-> << >>]
Condition(value) == [Loop(0) EXCEPT !.call = "setCondition", !.value = value]
Variable == [Loop(0) EXCEPT !.call = "setVariable", !.text = <<"x", "sub">>]
AllOperations == {Loop(0), Loop(2), Condition(TRUE), Condition(FALSE), Variable}

SmallFlags == {{"CanBeSuspended"}, {"CannotBeStopped"}}
SmallUses ==
  [first  |-> {"start", "exec"},
   second |-> {"terminate", "num"},
   third  |-> {"pause", "version"}]

SmallWindowsFlags ==
  {{"CanBeSuspended", "NeedsStopOnShutdown"}, {"CannotBeStopped"}}
SmallControllerUses ==
  [stopper |-> {"stop"},
   other |-> {"start", "install", "uninstall"}]

(* The parts while they do not move. *)
ExchangeAtRest ==
  /\ script = <<Plain, Plain>> /\ arrived = 0 /\ taken = 0
  /\ socket = "unconnected" /\ request = NoRequest /\ response = NoResponse
  /\ at = "readHttp" /\ closes = FALSE /\ calls = 0 /\ history = NoHistory

CookieAtRest ==
  /\ written = NewCookie /\ jar = << >> /\ source = << >> /\ position = 0
  /\ inString = FALSE /\ buffer = << >> /\ list = << >>
  /\ cookie = NewCookie /\ cookies = NoCookies /\ stage = "done"

EngineAtRest ==
  /\ original = << >> /\ text = << >>
  /\ operation = Loop(0)
  /\ from = 1 /\ tag = "loop" /\ progress = "done"

(* Threads and addresses are alike.  (So are processes of the service, but *)
(* to compare all permutations in each state costs more than it saves.)    *)
Interchangeable == Permutations(Readers) \cup Permutations(Addresses)

VARIABLE part

MCInit ==
  /\ part \in {"exchange", "cookie", "static", "loader", "engine", "unix", "windows"}
  /\ IF part = "exchange" THEN Init ELSE ExchangeAtRest
  /\ IF part = "cookie" THEN CookieInit ELSE CookieAtRest
  /\ IF part = "engine" THEN EngineInit ELSE EngineAtRest
  /\ StaticInit /\ TemplateInit /\ ManagerInit
  /\ ServiceInit
  /\ part # "loader" => caching
  /\ part # "unix" => ~installed
  /\ part # "windows" => registration = "none" /\ accepted = {}

MCNext ==
  /\ UNCHANGED part
  /\ part # "exchange" => UNCHANGED vars
  /\ part # "cookie" => UNCHANGED cookieVars
  /\ part # "static" => UNCHANGED staticVars
  /\ part # "loader" => UNCHANGED templateVars
  /\ part # "engine" => UNCHANGED engineVars
  /\ part # "unix" => UNCHANGED serviceVars
  /\ part # "windows" => UNCHANGED <<windowsVars, managerVars>>
  /\ \/ part = "exchange" /\ Next
     \/ part = "cookie" /\ CookieNext
     \/ part = "static" /\ StaticNext
     \/ part = "loader" /\ TemplateNext
     \/ part = "engine" /\ EngineNext
     \/ part = "unix" /\ ServiceNext
     \/ part = "windows" /\ ManagerNext

MCSpec ==
  MCInit /\ [][MCNext]_<<part, vars, cookieVars, staticVars, templateVars, engineVars,
                        serviceVars, windowsVars, managerVars>>
=============================================================================
