------------------------------ MODULE DeepCopy ------------------------------
(***************************************************************************)
(* What the generated DeepCopy functions copy.  An object is the memory    *)
(* behind its references: a function from the path of every pointer, slice *)
(* or map that is not nil to the owner of the memory it points to.  The    *)
(* elements of a slice are alike and share a path.  Plain fields have no   *)
(* path: an assignment copies them.                                        *)
(***************************************************************************)
EXTENDS Sequences

(* A field that refers to memory, in which there are the references below; *)
(* and a field that is a struct with the references below.                 *)
Ref(f, below)    == {<<f>>} \cup {<<f>> \o p : p \in below}
Struct(f, below) == {<<f>> \o p : p \in below}

-----------------------------------------------------------------------------
(* The API types: the references an object of each type has.  Of the       *)
(* metadata, those that kuda uses; a time's zone, which is never written   *)
(* to, is left out.                                                        *)

ObjectMetaType ==
    Ref("labels", {}) \cup Ref("annotations", {}) \cup Ref("finalizers", {})
    \cup Ref("deletionTimestamp", {})
    \cup Ref("ownerReferences", Ref("controller", {}))
ListMetaType == Ref("remainingItemCount", {})

LifecycleHandlerType == Ref("exec", Ref("command", {}))
                        \cup Ref("httpGet", Ref("httpHeaders", {}))
LifecycleType == Ref("preDownload", LifecycleHandlerType)
                 \cup Ref("postDownload", LifecycleHandlerType)
DataSourcesType == Ref("hdfs", Ref("addresses", {})) \cup Ref("alluxio", {})
DataTemplateSpecType == Ref("dataItems", Ref("lifecycle", LifecycleType))
                        \cup Ref("lifecycle", LifecycleType)
                        \cup Ref("dataSources", DataSourcesType)
DataType == Struct("metadata", ObjectMetaType)
            \cup Struct("spec", DataTemplateSpecType)
            \cup Struct("status", Ref("dataItemsStatus", {}))
DataSetType == Struct("metadata", ObjectMetaType)
               \cup Struct("spec", Struct("template", DataTemplateSpecType)
                                   \cup Ref("workloadSelector", {}))

Kinds == {"Data", "DataSet"}
ListKind == [Data |-> "DataList", DataSet |-> "DataSetList"]
TypePaths ==
    [Data |-> DataType, DataSet |-> DataSetType,
     DataList    |-> Struct("metadata", ListMetaType) \cup Ref("items", DataType),
     DataSetList |-> Struct("metadata", ListMetaType) \cup Ref("items", DataSetType)]

-----------------------------------------------------------------------------
(* DeepCopyInto, type by type: the references that the copy gets memory of *)
(* its own for.  *out = *in shares all others.                             *)

ObjectMetaCopies == ObjectMetaType
ListMetaCopies   == ListMetaType

AlluxioDataSourceCopies == {}
HdfsDataSourceCopies == Ref("addresses", {})
DataSourcesCopies == Ref("hdfs", HdfsDataSourceCopies)
                     \cup Ref("alluxio", AlluxioDataSourceCopies)
LifecycleHandlerCopies == Ref("exec", Ref("command", {}))
                          \cup Ref("httpGet", Ref("httpHeaders", {}))
LifecycleCopies == Ref("preDownload", LifecycleHandlerCopies)
                   \cup Ref("postDownload", LifecycleHandlerCopies)
(* A mutant of DataItemCopies: the items are copied like plain structs.    *)
DataItemShared == {}
DataItemCopies == Ref("lifecycle", LifecycleCopies)
DataSpecCopies == Ref("dataItems", DataItemCopies)
                  \cup Ref("lifecycle", LifecycleCopies)
                  \cup Ref("dataSources", DataSourcesCopies)
DataTemplateSpecCopies == Ref("dataItems", DataItemCopies)
                          \cup Ref("lifecycle", LifecycleCopies)
                          \cup Ref("dataSources", DataSourcesCopies)
DataItemStatusCopies  == {}
DataItemsStatusCopies == DataItemStatusCopies
DataStatusCopies      == Ref("dataItemsStatus", DataItemsStatusCopies)
DataSetStatusCopies   == {}
DataSetSpecCopies == Struct("template", DataTemplateSpecCopies)
                     \cup Ref("workloadSelector", {})
DataCopies    == Struct("metadata", ObjectMetaCopies)
                 \cup Struct("spec", DataSpecCopies)
                 \cup Struct("status", DataStatusCopies)
DataSetCopies == Struct("metadata", ObjectMetaCopies)
                 \cup Struct("spec", DataSetSpecCopies)
                 \cup Struct("status", DataSetStatusCopies)
DataListCopies    == Struct("metadata", ListMetaCopies) \cup Ref("items", DataCopies)
DataSetListCopies == Struct("metadata", ListMetaCopies) \cup Ref("items", DataSetCopies)

CopiedPaths == [Data |-> DataCopies, DataSet |-> DataSetCopies,
                DataList |-> DataListCopies, DataSetList |-> DataSetListCopies]

(* DeepCopy and DeepCopyObject of an object by some caller.                *)
DeepCopyObject(kind, object, caller) ==
    [p \in DOMAIN object |-> IF p \in CopiedPaths[kind] THEN caller ELSE object[p]]

(* A whole object in one owner's memory.                                   *)
OwnedBy(kind, owner) == [p \in TypePaths[kind] |-> owner]
=============================================================================
