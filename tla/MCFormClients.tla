---------------------------- MODULE MCFormClients ----------------------------
(* Forms for TLC: the labels are those of tests/unit/test_browser_mapping, *)
(* with the patterns that match in them.                                   *)
EXTENDS FormClients

MCSays == [Email |-> {"email"}, Name |-> {"name"}, Mode |-> {"work_mode"},
           City |-> {"location"}, Gender |-> {"gender"}, Resume |-> {},
           Ethnicity |-> {"location", "ethnicity"}, none |-> {}]

(* resume confidences as the extractor gives them.                         *)
MCProfile == [resume |-> [k \in {"email", "name", "location"} |->
                            CASE k = "email" -> 95 [] k = "name" -> 60 [] k = "location" -> 75],
              work_mode |-> TRUE, work_authorization |-> FALSE]

MCFieldN == <<"field_0", "field_1", "field_2", "field_3", "field_4">>

Control(type, label) ==
  [type |-> type, marks |-> <<>>, label |-> label, placeholder |-> "none", refuses |-> {}]
Marked(type, label, a, v) == [Control(type, label) EXCEPT !.marks = [x \in {a} |-> v]]

(* All on file: two inputs named alike, and a select that has no option    *)
(* for the value.                                                          *)
Known == <<Marked("email", "Email", "name", "x"), Marked("text", "City", "name", "x"),
           [Marked("select", "Mode", "id", "mode") EXCEPT !.refuses = {OnRecord("work_mode")}]>>

(* A question only the human can answer, between a hidden field and what   *)
(* is on file.                                                             *)
Question == <<Marked("hidden", "none", "name", "csrf"), Marked("select", "Resume", "name", "cv"),
              Marked("email", "Email", "testid", "mail"), Control("text", "City")>>

(* As many fields as a question has: the name, too uncertain for the form, *)
(* and a resume to upload, under the key of that question.                 *)
Upload == <<Marked("hidden", "none", "name", "csrf"), Marked("text", "Name", "name", "who"),
            Marked("file", "Resume", "id", "cv"), Marked("email", "Email", "testid", "mail")>>

Survey   == <<Marked("text", "Ethnicity", "name", "eth"), Control("email", "Email")>>
Personal == <<Control("text", "Name"), Marked("select", "Gender", "name", "g")>>

MCPages     == {Known, Question, Upload}
SurveyPages == {Survey, Personal}
MCSensitive == {"Gender", "Ethnicity"}

MCAnswerKeys  == {"cv"}
SurveyAnswers == {"gender", "name"}
=============================================================================
