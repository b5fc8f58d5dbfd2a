----------------------------- MODULE MCAdapters -----------------------------
EXTENDS Adapters

\* Go: a main file that calls and registers a handler of package pkg, with the
\* go.mod naming another module, a versioned replacement, or none at all.
Imp(name, path) == [name |-> name, path |-> path]
Fn(recv, name) == [recv |-> recv, name |-> name]
Call(in, callee, args) == [in |-> in, callee |-> callee, args |-> args]
GoSrc(imports, assigns, funcs, calls) == [imports |-> imports, assigns |-> assigns, funcs |-> funcs, calls |-> calls]
GoFile(path, src) == [path |-> path, src |-> src, skipped |-> FALSE]

MainSrc == GoSrc(<<Imp("", <<"m", "pkg">>), Imp("", <<"net", "http">>), Imp("", <<"x", "lib">>)>>,
                 <<[var |-> "mux", callee |-> <<"http", "NewServeMux">>]>>,
                 <<Fn("", "main"), Fn("", "help")>>,
                 <<Call(1, <<"pkg", "Run">>, <<>>), Call(1, <<"help">>, <<>>),
                   Call(1, <<"mux", "HandleFunc">>, <<<<"GET", "/r">>, <<"pkg", "Serve">>>>),
                   Call(1, <<"http", "HandleFunc">>, <<<<"/g">>, <<"make", "one">>>>)>>)
PkgSrc == GoSrc(<<>>, <<>>, <<Fn("", "Run"), Fn("T", "Serve")>>, <<Call(2, <<"Run">>, <<>>)>>)
PkgOld == GoSrc(<<>>, <<>>, <<Fn("", "Go")>>, <<>>)
Mod(module, replaces) == [dir |-> <<>>, module |-> module, replaces |-> replaces]
Pin == [module |-> <<"x">>, versioned |-> TRUE, local |-> TRUE, to |-> {<<"x">>}]
GoTree(pkg, mods) == [files |-> <<GoFile(<<"main.go">>, MainSrc), GoFile(<<"pkg", "a.go">>, pkg)>>, mods |-> mods]

GoTrees == {GoTree(PkgSrc, <<Mod(<<"m">>, <<>>)>>), GoTree(PkgSrc, <<Mod(<<"n">>, <<>>)>>),
            GoTree(PkgOld, <<Mod(<<"m">>, <<Pin>>)>>), GoTree(PkgOld, <<>>)}

\* Python: a package with a relative and an absolute import of the same file,
\* a Flask route, a name that only a compiled module provides.
From(dots, tail, name) == [from |-> TRUE, module |-> [dots |-> dots, tail |-> tail], name |-> name, local |-> name]
Import(tail) == [from |-> FALSE, module |-> [dots |-> 0, tail |-> tail], name |-> "", local |-> Head(tail)]
PyFn(name, decorators) == [name |-> name, decorators |-> decorators]
PySrc(imports, assigns, funcs, calls) == [imports |-> imports, assigns |-> assigns, funcs |-> funcs, calls |-> calls]
PyFile(path, src, skipped) == [path |-> path, src |-> src, skipped |-> skipped]
Route == [object |-> "app", verb |-> "route", path |-> "/r", methods |-> {}]
AppSrc == PySrc(<<From(1, <<"util">>, "work"), From(1, <<>>, "*"), Import(<<"fast">>), Import(<<"flask">>)>>,
                <<[var |-> "app", callee |-> <<"flask", "Flask">>]>>,
                <<PyFn(<<"serve">>, {Route}), PyFn(<<"help">>, {})>>,
                <<Call(1, <<"work">>, <<>>), Call(1, <<"help">>, <<>>), Call(2, <<"fast", "go">>, <<>>)>>)
UtilSrc == PySrc(<<>>, <<>>, <<PyFn(<<"work">>, {})>>, <<>>)
UtilOld == PySrc(<<>>, <<>>, <<PyFn(<<"C", "work">>, {})>>, <<>>)
PyTree(files) == [files |-> files]
PyTrees == {PyTree(<<PyFile(<<"p", "app">>, AppSrc, FALSE), PyFile(<<"p", "util">>, UtilSrc, FALSE)>>),
            PyTree(<<PyFile(<<"p", "app">>, AppSrc, FALSE), PyFile(<<"p", "util">>, UtilOld, FALSE)>>),
            PyTree(<<PyFile(<<"fast">>, UtilOld, TRUE), PyFile(<<"p", "app">>, AppSrc, FALSE)>>)}

\* JVM: a controller that calls its own overloads and an imported type, which
\* one or two files declare; a file of the other language may be unreadable.
JImp(path) == [path |-> path, wild |-> FALSE, static |-> FALSE, alias |-> ""]
SpringAll == [path |-> Spring, wild |-> TRUE, static |-> FALSE, alias |-> ""]
Ann(name, kind, paths) == [name |-> name, arg |-> [kind |-> kind, paths |-> paths]]
Type(chain, anns) == [chain |-> chain, class |-> TRUE, anns |-> anns]
JFn(name, params, variadic, anns) ==
    [owner |-> <<"C">>, recv |-> <<>>, name |-> name, params |-> params, variadic |-> variadic, ctor |-> FALSE, anns |-> anns]
JCall(in, object, name, arity) == [in |-> in, object |-> object, name |-> name, arity |-> arity]
JSrc(pkg, imports, types, funcs, calls) == [pkg |-> pkg, imports |-> imports, types |-> types, funcs |-> funcs, calls |-> calls]
JFile(path, l, header, src) == [path |-> path, lang |-> l, header |-> header, src |-> src]

CtlSrc(baseKind) ==
    JSrc({<<"s", "web">>}, <<SpringAll, JImp(<<"s", "core", "D">>), JImp(<<"t", "lib", "E">>)>>,
         <<Type(<<"C">>, <<Ann("RestController", "absent", {}), Ann("RequestMapping", baseKind, {<<"/", "a", "/">>})>>)>>,
         <<JFn("get", <<>>, FALSE, <<Ann("GetMapping", "literal", {<<"/", "b">>, <<"c", "/">>})>>),
           JFn("over", <<"int">>, FALSE, <<>>), JFn("over", <<"int", "int...">>, TRUE, <<>>)>>,
         <<JCall(1, "", "over", 2), JCall(1, "", "over", 1), JCall(1, "D", "run", 0), JCall(1, "E", "run", 0)>>)
DSrc(pkg) == JSrc({pkg}, <<>>, <<Type(<<"D">>, <<>>)>>, <<[JFn("run", <<>>, FALSE, <<>>) EXCEPT !.owner = <<"D">>]>>, <<>>)

JvmTree(l, ctl, second, third) ==
    [files |-> <<JFile(<<"c">>, l, <<"package">>, CtlSrc(ctl)), JFile(<<"d">>, l, <<"package">>, DSrc(<<"s", "core">>))>>
               \o (IF second THEN <<JFile(<<"e">>, l, <<"package">>, DSrc(<<"s", "core">>))>> ELSE <<>>)
               \o <<JFile(<<"z">>, IF l = "java" THEN "kotlin" ELSE "java", third,
                           IF Contains(third, "word") THEN [DSrc(<<"t">>) EXCEPT !.pkg = {}] ELSE DSrc(<<"t", "lib">>))>>]
JvmTrees(l) == {JvmTree(l, "literal", FALSE, <<"comment", "package">>), JvmTree(l, "dynamic", TRUE, <<"annotation", "other">>),
                JvmTree(l, "literal", TRUE, <<"comment", "cut">>), JvmTree(l, "literal", TRUE, <<"word">>)}

\* TypeScript: a component that calls, routes, renders, evaluates and guards, a
\* library file with and without the names it imports, and configs that move
\* what a bare import means.
Scope(parent, fn) == [parent |-> parent, fn |-> fn]
TsFn(name, upper, dispatch) == [name |-> name, upper |-> upper, dispatch |-> dispatch]
Decl(scope, name, kind, fn, type) == [scope |-> scope, name |-> name, kind |-> kind, fn |-> fn, type |-> type]
Specifier(up, segs, ext) == [up |-> up, segs |-> segs, ext |-> ext]
TImp(spec, locals) == [spec |-> spec, locals |-> locals]
Named(n) == [local |-> n, name |-> n, named |-> TRUE]
Whole(n) == [local |-> n, name |-> "", named |-> FALSE]
TCall(scope, name, at, recv, rname) ==
    [scope |-> scope, name |-> name, at |-> at, this |-> "", recv |-> [kind |-> recv, name |-> rname]]
Exit(fn, at, first, conditions) ==
    [fn |-> fn, at |-> at, first |-> first, recovered |-> FALSE, conditions |-> conditions, reasons |-> {}]
EmptySrc == [scopes |-> <<Scope(0, 0)>>, funcs |-> <<>>, decls |-> <<>>, assigns |-> {}, imports |-> <<>>, resources |-> <<>>,
             factories |-> <<>>, routes |-> <<>>, controllers |-> <<>>, events |-> <<>>, news |-> <<>>, produced |-> <<>>,
             consts |-> <<>>, fetches |-> <<>>, jsx |-> <<>>, default |-> "", calls |-> <<>>, fields |-> {}, classes |-> <<>>,
             evals |-> <<>>, exits |-> <<>>]
\* The code of an eval: a function of its own that returns under a condition.
EvalCode == [EmptySrc EXCEPT !.scopes = <<Scope(0, 0), Scope(1, 1)>>, !.funcs = <<TsFn(<<"wrap">>, FALSE, FALSE)>>,
                             !.exits = <<Exit(1, 1, TRUE, 1)>>]
AppTs ==
    [EmptySrc EXCEPT
        !.scopes = <<Scope(0, 0), Scope(1, 1), Scope(2, 2), Scope(1, 3)>>,
        !.funcs = <<TsFn(<<"App">>, TRUE, FALSE), TsFn(<<"go">>, FALSE, FALSE), TsFn(<<"K", "m">>, FALSE, TRUE)>>,
        !.decls = <<Decl(1, "App", "callable", 1, {}), Decl(2, "go", "callable", 2, {}), Decl(1, "K", "class", 1, {}),
                    Decl(1, "run", "import", 0, {}), Decl(1, "Lib", "import", 0, {}), Decl(1, "express", "import", 0, {}),
                    Decl(1, "Get", "import", 0, {}), Decl(1, "Controller", "import", 0, {}),
                    Decl(3, "v", "var", 0, {[scope |-> 1, name |-> "Lib"]}), Decl(3, "k", "var", 0, {[scope |-> 1, name |-> "K"]})>>,
        !.imports = <<TImp(Specifier(0, <<"lib">>, ""), <<Named("run"), Named("Lib")>>), TImp(Specifier(-1, <<"express">>, ""), <<Whole("express")>>),
                      TImp(Specifier(-1, <<"@app", "x">>, ""), <<>>), TImp(Specifier(-1, <<"lib">>, ""), <<>>),
                      TImp(Specifier(-1, <<"@nestjs", "common">>, ""), <<Named("Get"), Named("Controller")>>),
                      TImp(Specifier(-1, <<"@pulumi", "aws">>, ""), <<Whole("aws")>>), TImp(Specifier(0, <<"d">>, ".json"), <<>>)>>,
        !.resources = <<[base |-> "aws", type |-> "Bucket", name |-> "b", var |-> "b",
                         links |-> {[label |-> "REFERENCES", from |-> "", to |-> "run"], [label |-> "DEPENDS_ON", from |-> "", to |-> "b"]}]>>,
        !.factories = <<[var |-> "app", callee |-> <<"express">>]>>,
        !.routes = <<[recv |-> "app", verb |-> "get", route |-> <<"/", "r">>, scope |-> 1, inline |-> 0, handler |-> "run"]>>,
        !.controllers = <<[decorator |-> "Controller", prefix |-> <<"c">>, methods |-> <<[decorator |-> "Get", suffix |-> <<>>, fn |-> 3]>>]>>,
        !.jsx = <<[tag |-> "Lib", upper |-> TRUE, scope |-> 2, route |-> <<>>, element |-> ""]>>, !.default = "App",
        !.calls = <<TCall(2, "go", 1, "none", ""), TCall(3, "run", 2, "none", ""), TCall(3, "Lib", 3, "none", ""),
                    TCall(3, "m", 4, "name", "v"), TCall(3, "m", 5, "name", "k")>>,
        !.classes = <<"K">>,
        !.evals = <<[callee |-> "eval", proof |-> "literal", at |-> 6, scope |-> 3, code |-> EvalCode],
                    [callee |-> "eval", proof |-> "const", at |-> 7, scope |-> 2, code |-> EmptySrc]>>,
        !.exits = <<Exit(1, 8, TRUE, 1), Exit(1, 9, FALSE, 0), Exit(2, 10, FALSE, 1), Exit(2, 11, FALSE, 2)>>]
LibTs == [EmptySrc EXCEPT !.scopes = <<Scope(0, 0), Scope(1, 1), Scope(1, 2)>>,
             !.funcs = <<TsFn(<<"run">>, FALSE, FALSE), TsFn(<<"Lib", "m">>, FALSE, TRUE)>>,
             !.decls = <<Decl(1, "run", "callable", 1, {})>>]
LibOther == [LibTs EXCEPT !.funcs = <<TsFn(<<"walk">>, FALSE, FALSE), TsFn(<<"Lib", "m">>, FALSE, FALSE)>>, !.decls = <<>>]
TsSrcFile(path, src) == [path |-> path, src |-> src, lang |-> "ts"]
TsConfig(star, target, extends) ==
    [dir |-> <<>>, config |-> <<"tsconfig">>, base |-> {}, extends |-> extends,
     paths |-> <<[key |-> <<"@app">>, star |-> star, targets |-> <<target>>]>>]
Manifest(name, deps) == [dir |-> <<>>, config |-> <<"package">>, name |-> name, entries |-> <<<<"src", "lib">>>>, deps |-> deps]
TsTree(lib, libPath, tsconfigs, manifests) ==
    [files |-> <<TsSrcFile(<<"pages", "app", ".tsx">>, AppTs), TsSrcFile(libPath, lib)>>, tsconfigs |-> tsconfigs,
     manifests |-> manifests, aliases |-> <<>>, assets |-> {<<"pages", "d", ".json">>}]
TsTrees == {TsTree(LibTs, <<"pages", "lib", ".ts">>, <<>>, <<>>),
            TsTree(LibTs, <<"pages", "lib", "index", ".ts">>, <<TsConfig(TRUE, <<"pages">>, FALSE)>>, <<>>),
            TsTree(LibOther, <<"pages", "lib", ".js">>, <<TsConfig(TRUE, <<"pages", "lib">>, TRUE)>>, <<Manifest(<<"lib">>, {"express"})>>),
            TsTree(LibOther, <<"lib", ".ts">>, <<TsConfig(FALSE, <<"lib">>, TRUE)>>, <<>>)}

\* Terraform: a root module that expands a shared one, which refers to a queue
\* and holds a module of its own; the policy document names what it grants.
Res(type, name) == <<"resource", type, name>>
Doc(name) == <<"data", "aws_iam_policy_document", name>>
Block(local, refs) == [local |-> local, refs |-> refs, deps |-> {}, caps |-> {}, grants |-> {}, policy |-> {}, source |-> {}]
ModuleOf(name, up, segs) == [Block(<<"module", "", name>>, {}) EXCEPT !.source = {[up |-> up, segs |-> segs]}]
TfFile(path, src) == [path |-> path, src |-> src, ignored |-> path[1] = "lib"]
Role == [Block(Res("aws_iam_role", "r"), {Res("aws_sqs_queue", "q"), Doc("d")}) EXCEPT !.deps = {Res("aws_sqs_queue", "q")}, !.grants = {Doc("d")}]
Trigger == [Block(Res("aws_trigger", "t"), {Res("aws_sqs_queue", "q")}) EXCEPT
               !.caps = {[label |-> "TRIGGERS", from |-> {Res("aws_sqs_queue", "q")}, to |-> {Res("aws_trigger", "t"), <<"module", "", "n">>}]}]
Document(statements) == [Block(Doc("d"), {}) EXCEPT !.policy = statements]
TfLib(statements) == <<Block(Res("aws_sqs_queue", "q"), {}), Role, Trigger, Document(statements), ModuleOf("n", 1, <<"x">>)>>
TfTree(owner, other, statements) ==
    [files |-> <<TfFile(<<"lib", "main">>, TfLib(statements)), TfFile(<<"x", "main">>, owner), TfFile(<<"y", "main">>, other)>>]
Caller == <<ModuleOf("m", 1, <<"lib">>), ModuleOf("far", -1, <<>>)>>
Plain == <<Block(Res("aws_sqs_queue", "z"), {})>>
TfTrees == {TfTree(Caller, Plain, {{Res("aws_sqs_queue", "q")}, {}}), TfTree(Caller, <<>>, {{Res("aws_sqs_queue", "q")}}), TfTree(Caller, Plain, {})}
\* The module call moves from one root to the other.
MovedTrees == [terraform |-> {TfTree(Caller, Plain, {}), TfTree(Plain, Caller, {})}]

MCAdapterTrees == [go |-> GoTrees, python |-> PyTrees, java |-> JvmTrees("java"), kotlin |-> JvmTrees("kotlin"), ts |-> TsTrees, terraform |-> TfTrees]
MCCapitalised == {"C", "D", "E"}
=============================================================================
