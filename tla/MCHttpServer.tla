---------------------------- MODULE MCHttpServer ----------------------------
(* Instances of HttpServer for TLC: a form whose body has an end of line   *)
(* in it, and a page with a query and a header that has no value.          *)
EXTENDS HttpServer

MCSymbols ==
  {"sp", "cr", "lf", ":", "?", "HTTP/1.1", "GET", "POST", "/send", "/rooms",
   "Host", "Accept", "chat", "{", "}"}
MCRoutes == {<<<<"POST">>, <<"/send">>>>, <<<<"GET">>, <<"/rooms">>>>}

Form == [method |-> <<"POST">>, target |-> <<"/send">>,
         headers |-> <<<<"Host", ":", "sp", "chat">>>>, body |-> <<"{", "cr", "lf", "}">>]
Page == [method |-> <<"GET">>, target |-> <<"/rooms", "?">>,
         headers |-> <<<<"Accept", ":">>>>, body |-> <<>>]

MCRequests == {Form, Page}
=============================================================================
