----------------------------- MODULE MCSources -----------------------------
(* The configuration paths of the small instance of Configuration.            *)
EXTENDS Sequences

NoJson == [type |-> "none"]
Text(s) == [type |-> "string", text |-> s]
Obj(members) == [type |-> "object", members |-> members]
Arr(items) == [type |-> "array", items |-> items]
M(key, v) == [key |-> key, value |-> v]
Template(expression) ==
    Obj(<<M("__zowe_internal_type__", [type |-> "unevaluated"]),
          M("source", [type |-> "source", expression |-> expression])>>)

X == Text("x")
Y == Text("y")
Z == Text("z")
A == <<"a">>
AB == <<"a", "b">>

Contents == {
    X,
    Obj(<<M("a", X), M("b", Y)>>),
    Obj(<<M("b", Z), M("a", Obj(<<M("b", X), M("c", Y)>>))>>),
    Obj(<<M("a", Obj(<<M("b", Y)>>))>>),
    Obj(<<M("a", Arr(<<X, Obj(<<M("b", X)>>)>>))>>),
    Obj(<<M("a", Arr(<<Y, Obj(<<M("c", Z)>>), Z>>))>>),
    Obj(<<M("a", Obj(<<M("b", Template(<<"b">>))>>)), M("c", Template(AB))>>),
    Obj(<<M("c", Template(A)), M("d", Arr(<<Template(<<"b">>), Template(<<"c">>)>>))>>),
    Obj(<<M("a", Template(<<"b">>))>>),
    Obj(<<M("c", Template(AB))>>) }

File(json) == [expanded |-> FALSE, json |-> json]
Library(json) == [expanded |-> TRUE, json |-> json]
Elements == {File(c) : c \in Contents} \cup {File(NoJson), Library(NoJson), Library(X)}
Later == {File(Obj(<<M("b", Y)>>)), File(Obj(<<M("a", Obj(<<M("b", X)>>)), M("d", X)>>)), Library(NoJson),
          File(Obj(<<M("b", Obj(<<M("b", Z)>>)), M("e", Template(<<"d">>))>>))}

MCPaths == {<<e>> : e \in Elements} \cup {<<e, f>> : e, f \in Elements}
           \cup {<<e, f, g>> : e, f \in Elements, g \in Later}
MCEdits == {<<File(NoJson)>>, <<File(Obj(<<M("c", Template(<<"b">>))>>))>>,
            <<File(Obj(<<M("a", X)>>)), File(NoJson)>>,
            <<File(X), File(Obj(<<M("a", X), M("c", Template(A))>>))>>}
=============================================================================
